---- MODULE Spec2Model ----
(***************************************************************************)
(* Primitive dispatch and jit dispatch of jax/_src/dispatch.py.            *)
(*                                                                         *)
(* Part I   the two compilation caches (xla_primitive_callable and         *)
(*          _xla_callable) called from several threads: SpecCache, and     *)
(*          SpecSeq for one thread.                                        *)
(* Part II  lower_xla_callable, XlaComputation.compile and the call of the *)
(*          compiled computation, one step per statement group: Spec.      *)
(* Part III the calls of an XlaCompiledComputation: the argument check,    *)
(*          the three execution strategies, check_special, the result      *)
(*          handlers and the recovery of _xla_call_impl: SpecExec.         *)
(***************************************************************************)
EXTENDS Integers, Sequences, FiniteSets, TLC

VARIABLES
  \* Part I: caches and threads
  primCache,    \* entries <<key, artifact id>> of xla_primitive_callable's cache
  jitCache,     \* entries <<key, artifact id>> of _xla_callable's cache
  arts,         \* the XlaComputation objects built so far, by artifact id
  tpc,          \* per thread: where it is in its dispatch call
  tcall,        \* per thread: the cache and key of the call in flight
  tres,         \* per thread: artifact id the call returned or is building
  ninvoked,     \* builder invocations ever made (caps the model)
  hist,         \* history since the last cache_clear, per cache
  \* Part II: one run of lower_xla_callable, compile and call
  pc,              \* the statement group the run has reached
  inp,             \* the arguments of lower_xla_callable
  jaxpr,           \* the local jaxpr (NoJaxpr before tracing)
  consts,          \* the local consts
  kept_const_idx,  \* _prune_unused_inputs' kept constant positions (1-based)
  kept_var_idx,    \* _prune_unused_inputs' kept input positions (1-based)
  arg_devices,     \* the local arg_devices
  nreps,           \* jaxpr_replicas(jaxpr), 0 before it is computed
  device,          \* the resolved device (Unset before resolution)
  backend,         \* the resolved backend (Unset before resolution)
  env,             \* what xla_bridge answered: device_count, process_count
  result,          \* the XlaComputation returned (NoResult before)
  error,           \* the exception raised (NoError when none)
  donated_invars,  \* the local donated_invars
  calls,           \* the backend calls issued so far
  out,             \* the results of the call (<<>> before)
  obs,             \* what the run did besides: warnings, compiles, calls
  \* Part III: one lowered computation, compiled and called once
  comp,    \* the computation: what lowering recorded, then its handlers
  cfg,     \* config.jax_debug_nans, config.jax_debug_infs
  xpc,     \* where the compile or the call is
  xcall,   \* the entry point of the call and its arguments
  xlog     \* what the call did: checks, executions, buffers, results, error

cvars == <<primCache, jitCache, arts, tpc, tcall, tres, ninvoked, hist>>

lvars == <<pc, inp, jaxpr, consts, kept_const_idx, kept_var_idx, arg_devices,
           donated_invars, nreps, device, backend, env, result, error, calls, out,
           obs>>

xvars == <<comp, cfg, xpc, xcall, xlog>>

vars == <<cvars, lvars, xvars>>

\* ------------------------------------------------------------------ bounds

\* Builder invocations (cache misses) a behaviour may make.
MaxBuilds == 2

\* ------------------------------------------------------------ input sets

None == "None"

Threads == {1, 2}

Dtypes == {"f32", "i32"}

\* A runtime value's device: committed to a device, uncommitted (None), or a
\* value with no _device attribute at all (a numpy array, a Python scalar).
NoAttr == "NoAttr"

ValueDevices == {NoAttr, None, "A"}

\* A value of a type that has no abstract value (a Python string, say).
BadValue == [dtype |-> "object", device |-> NoAttr]

Values == [dtype : Dtypes, device : ValueDevices] \cup {BadValue}

NoValue == [dtype |-> "none", device |-> NoAttr]

Prims == {"add"}

\* Wrapped functions: f reads its argument, g returns a literal.
WrappedFuns == {"f", "g"}

\* ------------------------------------------------------- fingerprinting

\* xla.abstractify: the abstract value of a runtime value (its dtype; every
\* value of the model is a scalar).
abstractify(x) == [dtype |-> x.dtype]

\* arg_spec with its whole body inside the try: no error leaves it.
arg_spec_error_swallowed(x) == "none"

\* The error that leaves arg_spec: abstractify is called outside the try, so
\* its TypeError for a value with no abstract value propagates.
arg_spec_error(x) == IF x.dtype \in Dtypes THEN "none" ELSE "TypeError"

\* The error arg_spec catches: reading x._device is inside the bare except.
arg_spec_caught(x) ==
  IF x.dtype \in Dtypes /\ x.device = NoAttr THEN "AttributeError" ELSE "none"

\* arg_spec that leaves the device out of the spec.
arg_spec_no_device(x) == <<abstractify(x), None>>

\* arg_spec with the value's identity kept in the spec.
arg_spec_identity(x) == <<abstractify(x), x.device>>

\* arg_spec: (aval, x._device), and (aval, None) when reading x._device fails.
arg_spec(x) ==
  IF x.device = NoAttr THEN <<abstractify(x), None>>
  ELSE <<abstractify(x), x.device>>

\* ------------------------------------------------------------- the caches

\* A cache is a set of entries <<key, artifact id>>.
CacheHas(c, k) == \E e \in c : e[1] = k

CacheGet(c, k) == (CHOOSE e \in c : e[1] = k)[2]

\* cache[key] = value: the entry of the key is replaced (last write wins).
CacheStore(c, k, a) == {e \in c : e[1] # k} \cup {<<k, a>>}

NoCall ==
  [cache |-> "none", key |-> <<>>, hit |-> FALSE, arg |-> NoValue,
   error |-> "none"]

EmptyHist ==
  [nbuilds   |-> 0,     \* builder invocations
   nfails    |-> 0,     \* builds that ended in an error
   failed    |-> {},    \* keys of the builds that ended in an error
   called    |-> {},    \* <<fun, dtype, device>> of the calls started
   first     |-> {},    \* <<key, artifact>> of the first successful build of a key
   last      |-> {}]    \* <<key, artifact>> of the last write of a key

\* The key a call is asked under, from the inputs themselves.
CallKey(fun, x) ==
  <<fun, x.dtype, IF x.device = NoAttr THEN None ELSE x.device>>

Ready(t) == tpc[t] \in {"idle", "ret", "raised"}

\* A cache hit: the cached artifact is returned, the builder is not invoked.
Hit(t, c, k, a, x) ==
  /\ tpc' = [tpc EXCEPT ![t] = "ret"]
  /\ tcall' = [tcall EXCEPT ![t] = [cache |-> c, key |-> k, hit |-> TRUE,
                                     arg |-> x, error |-> "none"]]
  /\ tres' = [tres EXCEPT ![t] = a]
  /\ UNCHANGED <<primCache, jitCache, arts, ninvoked>>

\* A cache miss: the builder is invoked in the calling thread.
Miss(t, c, k, x) ==
  /\ ninvoked < MaxBuilds
  /\ ninvoked' = ninvoked + 1
  /\ tpc' = [tpc EXCEPT ![t] = "lowering"]
  /\ tcall' = [tcall EXCEPT ![t] = [cache |-> c, key |-> k, hit |-> FALSE,
                                     arg |-> x, error |-> "none"]]
  /\ tres' = [tres EXCEPT ![t] = 0]
  /\ UNCHANGED <<primCache, jitCache, arts>>

Started(c, ck, miss) ==
  hist' = [hist EXCEPT ![c].called = @ \cup {ck},
                       ![c].nbuilds = IF miss THEN @ + 1 ELSE @]

\* util.cache / lu.cache around a builder: get_or_build(key, build_fn).
GetOrBuild(t, c, cache, k, ck, x) ==
  IF CacheHas(cache, k)
  THEN Hit(t, c, k, CacheGet(cache, k), x) /\ Started(c, ck, FALSE)
  ELSE Miss(t, c, k, x) /\ Started(c, ck, TRUE)

\* An error raised before the cache is consulted reaches the caller.
RaiseToCaller(t, c, x, err) ==
  /\ tpc' = [tpc EXCEPT ![t] = "raised"]
  /\ tcall' = [tcall EXCEPT ![t] = [cache |-> c, key |-> <<>>, hit |-> FALSE,
                                     arg |-> x, error |-> err]]
  /\ tres' = [tres EXCEPT ![t] = 0]
  /\ UNCHANGED <<primCache, jitCache, arts, ninvoked, hist>>

\* xla_primitive_callable without its cache decorator.
xla_primitive_callable_uncached(t, prim, specs, ck, x) ==
  Miss(t, "prim", <<prim, specs>>, x) /\ Started("prim", ck, TRUE)

\* @util.cache() def xla_primitive_callable(prim, *arg_specs, **params)
xla_primitive_callable(t, prim, specs, ck, x) ==
  GetOrBuild(t, "prim", primCache, <<prim, specs>>, ck, x)

\* apply_primitive(prim, *args): the classic (non-MLIR) path.
apply_primitive(t, prim, x) ==
  /\ Ready(t)
  /\ IF arg_spec_error(x) # "none"
     THEN RaiseToCaller(t, "prim", x, arg_spec_error(x))
     ELSE xla_primitive_callable(t, prim, <<arg_spec(x)>>, CallKey(prim, x), x)
  /\ UNCHANGED <<lvars, xvars>>

\* _xla_callable keyed without the argument specs.
xla_callable_no_specs(t, fun, dev, be, name, donated, specs, ck, x) ==
  GetOrBuild(t, "jit", jitCache, <<fun, dev, be, name, donated, <<>>>>, ck, x)

\* _xla_callable = lu.cache(_xla_callable_uncached)
xla_callable(t, fun, dev, be, name, donated, specs, ck, x) ==
  GetOrBuild(t, "jit", jitCache, <<fun, dev, be, name, donated, specs>>, ck, x)

\* _xla_call_impl(fun, *args, device, backend, name, donated_invars, inline)
xla_call_impl(t, fun, x) ==
  /\ Ready(t)
  /\ IF arg_spec_error(x) # "none"
     THEN RaiseToCaller(t, "jit", x, arg_spec_error(x))
     ELSE xla_callable(t, fun, None, None, fun, <<FALSE>>, <<arg_spec(x)>>,
                       CallKey(fun, x), x)
  /\ UNCHANGED <<lvars, xvars>>

\* lower_xla_callable returns a new XlaComputation, _executable unset.
LowerOk(t) ==
  /\ tpc[t] = "lowering"
  /\ arts' = Append(arts, [key |-> tcall[t].key, executable |-> FALSE])
  /\ tres' = [tres EXCEPT ![t] = Len(arts) + 1]
  /\ tpc' = [tpc EXCEPT ![t] = "compiling"]
  /\ UNCHANGED <<primCache, jitCache, tcall, ninvoked, hist, lvars, xvars>>

\* lower_xla_callable raises: the error leaves the cache as it was.
LowerFail(t) ==
  /\ tpc[t] = "lowering"
  /\ tpc' = [tpc EXCEPT ![t] = "raised"]
  /\ tcall' = [tcall EXCEPT ![t].error = "LoweringError"]
  /\ hist' = [hist EXCEPT ![tcall[t].cache].nfails = @ + 1,
                          ![tcall[t].cache].failed = @ \cup {tcall[t].key}]
  /\ UNCHANGED <<primCache, jitCache, arts, tres, ninvoked, lvars, xvars>>

\* A failed compile after which the cache wrapper stores the computation
\* under the key all the same.
CompileFail_stored(t) ==
  /\ tpc[t] = "compiling"
  /\ tpc' = [tpc EXCEPT ![t] = "raised"]
  /\ tcall' = [tcall EXCEPT ![t].error = "BackendError"]
  /\ tres' = [tres EXCEPT ![t] = 0]
  /\ IF tcall[t].cache = "prim"
     THEN /\ primCache' = CacheStore(primCache, tcall[t].key, tres[t])
          /\ UNCHANGED jitCache
     ELSE /\ jitCache' = CacheStore(jitCache, tcall[t].key, tres[t])
          /\ UNCHANGED primCache
  /\ hist' = [hist EXCEPT ![tcall[t].cache].nfails = @ + 1,
                          ![tcall[t].cache].failed = @ \cup {tcall[t].key}]
  /\ UNCHANGED <<arts, ninvoked, lvars, xvars>>

\* compile() raises (the backend's error passes through): the exception leaves
\* the builder before the cache wrapper stores anything, the computation that
\* was lowered is dropped with no executable, and the caller gets the error.
CompileFail(t) ==
  /\ tpc[t] = "compiling"
  /\ tpc' = [tpc EXCEPT ![t] = "raised"]
  /\ tcall' = [tcall EXCEPT ![t].error = "BackendError"]
  /\ tres' = [tres EXCEPT ![t] = 0]
  /\ hist' = [hist EXCEPT ![tcall[t].cache].nfails = @ + 1,
                          ![tcall[t].cache].failed = @ \cup {tcall[t].key}]
  /\ UNCHANGED <<primCache, jitCache, arts, ninvoked, lvars, xvars>>

\* compile() that hands the computation back with no executable set.
compile_unset(a) == a

\* XlaComputation.compile: sets _executable when it is None.
compile(a) ==
  IF a.executable = FALSE THEN [a EXCEPT !.executable = TRUE] ELSE a

SetEntry(h, k, a, firstOnly) ==
  IF firstOnly /\ (\E e \in h : e[1] = k) THEN h
  ELSE {e \in h : e[1] # k} \cup {<<k, a>>}

\* _xla_callable_uncached: lower(...).compile().unsafe_call, which the cache
\* wrapper then stores under the key and returns.
CompileAndStore(t) ==
  /\ tpc[t] = "compiling"
  /\ LET c == tcall[t].cache
         k == tcall[t].key
         a == tres[t]
     IN /\ arts' = [arts EXCEPT ![a] = compile(arts[a])]
        /\ IF c = "prim"
           THEN /\ primCache' = CacheStore(primCache, k, a)
                /\ UNCHANGED jitCache
           ELSE /\ jitCache' = CacheStore(jitCache, k, a)
                /\ UNCHANGED primCache
        /\ hist' = [hist EXCEPT ![c].first = SetEntry(@, k, a, TRUE),
                                ![c].last = SetEntry(@, k, a, FALSE)]
  /\ tpc' = [tpc EXCEPT ![t] = "ret"]
  /\ UNCHANGED <<tcall, tres, ninvoked, lvars, xvars>>

\* xla_primitive_callable.cache_clear(), as count_primitive_compiles does.
CacheClear ==
  /\ primCache # {} \/ hist["prim"] # EmptyHist
  /\ primCache' = {}
  /\ hist' = [hist EXCEPT !["prim"] = EmptyHist]
  /\ UNCHANGED <<jitCache, arts, tpc, tcall, tres, ninvoked, lvars, xvars>>

\* cache_clear() called by the one thread, between its dispatch calls.
CacheClearSeq == Ready(1) /\ CacheClear

\* ================================================= Part II: the programs

\* Inputs a call may have.
MaxArgs == 2

\* Equations of a traced program.
MaxEqns == 2

\* Largest axis_size of an xla_pmap equation.
MaxAxis == 4

\* Largest number of devices a backend reports.
MaxDevCount == 2

\* Uses of one XlaComputation: its compile() calls and the calls of what
\* they return.
MaxUses == 3

Unset == "unset"

Devices == {"A", "B"}

ArgDevices == {None} \cup Devices

\* core.Var and core.Literal atoms.
Var(i) == <<"var", i>>

Literal(v) == <<"lit", v>>

IsVar(a) == a[1] = "var"

NoParams == [n \in {} |-> 0]

\* Parameter values, by their Python type.
IntParam(n) == [type |-> "int", val |-> n]

JaxprParam(j) == [type |-> "Jaxpr", val |-> j]

ClosedJaxprParam(j) == [type |-> "ClosedJaxpr", val |-> [jaxpr |-> j]]

Eqn(prim, ins, o, params) ==
  [primitive |-> prim, invars |-> ins, outvars |-> <<Var(o)>>,
   params |-> params]

Jaxpr(cv, iv, ov, eqns) ==
  [constvars |-> cv, invars |-> iv, outvars |-> ov, eqns |-> eqns]

NoJaxpr == Jaxpr(<<>>, <<>>, <<>>, <<>>)

\* Variable 0 stands for a literal operand.
Atom(i) == IF i = 0 THEN Literal(0) ELSE Var(i)

VarSeq(lo, n) == [i \in 1..n |-> Var(lo + i - 1)]

\* Programs of plain equations: nc constants, ni inputs, at most me
\* equations, equation j reads one earlier variable or a literal, and the one
\* output is a variable or a literal.
DataflowJaxprs(nc, ni, me) ==
  LET nv == nc + ni
  IN UNION {
       { Jaxpr(VarSeq(1, nc), VarSeq(nc + 1, ni), <<Atom(o)>>,
               [j \in 1..neq |-> Eqn("add", <<Atom(r[j])>>, nv + j, NoParams)])
         : r \in {q \in [1..neq -> 0..(nv + neq)] :
                    \A j \in 1..neq : q[j] <= nv + j - 1},
           o \in 0..(nv + neq) }
       : neq \in 0..me }

\* Nested programs: one plain equation, or one xla_pmap of a plain equation.
SubPlain == Jaxpr(<<>>, <<Var(1)>>, <<Var(2)>>,
                  <<Eqn("add", <<Var(1)>>, 2, NoParams)>>)

SubPmap(n) ==
  Jaxpr(<<>>, <<Var(1)>>, <<Var(2)>>,
        <<Eqn("xla_pmap", <<Var(1)>>, 2,
              [axis_size |-> IntParam(n), call_jaxpr |-> JaxprParam(SubPlain)])>>)

SubJaxprs == {SubPlain, SubPmap(MaxAxis)}

\* What an equation may be: its primitive and its parameters. The last kind
\* declares an axis_size and holds no program.
EqnKinds ==
  {[primitive |-> "add", params |-> NoParams]}
  \cup {[primitive |-> "xla_call", params |-> [call_jaxpr |-> JaxprParam(s)]]
        : s \in SubJaxprs}
  \cup {[primitive |-> "xla_pmap",
         params |-> [axis_size |-> IntParam(n), call_jaxpr |-> JaxprParam(s)]]
        : n \in 1..MaxAxis, s \in SubJaxprs}
  \cup {[primitive |-> "while",
         params |-> [body_jaxpr |-> ClosedJaxprParam(s), body_nconsts |-> IntParam(0)]]
        : s \in SubJaxprs}
  \cup {[primitive |-> "all_gather", params |-> [axis_size |-> IntParam(MaxAxis)]]}

\* Programs of one equation of any kind that reads every one of the ni
\* inputs and a literal.
ReplicaJaxprs(ni) ==
  { Jaxpr(<<>>, VarSeq(1, ni), <<Var(ni + 1)>>,
          <<Eqn(k.primitive, VarSeq(1, ni) \o <<Literal(0)>>, ni + 1, k.params)>>)
    : k \in EqnKinds }

\* Programs of two sibling equations of any kind, with no input.
SiblingJaxprs ==
  { Jaxpr(<<>>, <<>>, <<Var(2)>>,
          <<Eqn(k1.primitive, <<Literal(0)>>, 1, k1.params),
            Eqn(k2.primitive, <<Var(1)>>, 2, k2.params)>>)
    : k1 \in EqnKinds, k2 \in EqnKinds }

\* A constant's value: a host array, a DeviceArray or a leaked Tracer.
ConstKinds == {"ndarray", "DeviceArray", "Tracer"}

ConstValue(i, kind) == [data |-> <<"const", i>>, kind |-> kind]

HostConsts(nc) == [i \in 1..nc |-> ConstValue(i, "ndarray")]

\* The wrapped function, by what tracing it yields: a jaxpr and its consts.
Fun(j, cs) == [jaxpr |-> j, consts |-> cs]

DeviceSeqs(n) == [1..n -> ArgDevices]

\* A call: prim says it comes through xla_primitive_callable, tokens are the
\* positions of the arguments that are core.token.
Call(dev, be, ads, fun) ==
  [device |-> dev, backend |-> be, arg_devices |-> ads,
   donated_invars |-> [i \in 1..Len(ads) |-> FALSE], fun |-> fun,
   prim |-> FALSE, tokens |-> {}]

Overrides == {None, "A"} \X {None, "tpu"}

\* The calls of the model, as a predicate on lower_xla_callable's arguments:
\* every dataflow program with uncommitted arguments,
IsDataflowCall(c) ==
  \E nc \in 0..1, ni \in 0..MaxArgs :
    \E j \in DataflowJaxprs(nc, ni, MaxEqns) :
      c = Call(None, None, [i \in 1..ni |-> None], Fun(j, HostConsts(nc)))

\* every program of at most one plain equation with arguments on any devices,
IsColocationCall(c) ==
  \E nc \in 0..1, ni \in 1..MaxArgs :
    \E ads \in DeviceSeqs(ni), j \in DataflowJaxprs(nc, ni, 1) :
      c = Call(None, None, ads, Fun(j, HostConsts(nc)))

\* every one-equation program under every device and backend override with
\* arguments on any devices, every two-equation program under every override,
IsPlacementCall(c) ==
  \/ \E ni \in 0..MaxArgs :
       \E o \in Overrides, ads \in DeviceSeqs(ni), j \in ReplicaJaxprs(ni) :
         c = Call(o[1], o[2], ads, Fun(j, <<>>))
  \/ \E o \in Overrides, j \in SiblingJaxprs :
       c = Call(o[1], o[2], <<>>, Fun(j, <<>>))

\* a function that closes over one constant of every kind,
IsConstCall(c) ==
  \E o \in Overrides, k \in ConstKinds :
    \E j \in { Jaxpr(<<Var(1)>>, <<>>, <<Var(1)>>, <<>>),
                Jaxpr(<<Var(1)>>, <<>>, <<Var(2)>>,
                      <<Eqn("add", <<Var(1)>>, 2, NoParams)>>),
                Jaxpr(<<Var(1)>>, <<>>, <<Var(2)>>,
                      <<Eqn("xla_pmap", <<Var(1)>>, 2,
                            [axis_size |-> IntParam(2),
                             call_jaxpr |-> JaxprParam(SubPlain)])>>) } :
      c = Call(o[1], o[2], <<>>, Fun(j, <<ConstValue(1, k)>>))

\* every program of at most one plain equation with any donation flags under
\* every device and backend override,
IsDonationCall(c) ==
  \E ni \in 1..MaxArgs :
    \E o \in Overrides, d \in [1..ni -> BOOLEAN], j \in DataflowJaxprs(0, ni, 1) :
      c = [Call(o[1], o[2], [i \in 1..ni |-> None], Fun(j, <<>>))
             EXCEPT !.donated_invars = d]

\* Programs of at most one plain equation with no output or two.
MultiOutJaxprs(ni) ==
  UNION {
    { Jaxpr(<<>>, VarSeq(1, ni), [k \in 1..no |-> Atom(o[k])],
            [j \in 1..neq |-> Eqn("add", <<Atom(r)>>, ni + 1, NoParams)])
      : r \in 0..ni, o \in [1..no -> 0..(ni + neq)] }
    : neq \in 0..1, no \in {0, 2} }

\* and every program of no or two outputs called with arguments any of
\* which may be core.token.
IsMultiOutCall(c) ==
  \E ni \in 0..MaxArgs :
    \E j \in MultiOutJaxprs(ni), tk \in SUBSET (1..ni) :
      c = [Call(None, None, [i \in 1..ni |-> None], Fun(j, <<>>))
             EXCEPT !.tokens = tk]

\* What tracing prim_fun yields: one equation that binds the primitive to
\* all the arguments.
PrimJaxpr(ni) ==
  Jaxpr(<<>>, VarSeq(1, ni), <<Var(ni + 1)>>,
        <<Eqn("add", VarSeq(1, ni), ni + 1, NoParams)>>)

\* and every call of a primitive through xla_primitive_callable with
\* arguments on any devices.
IsPrimitiveCall(c) ==
  \E ni \in 1..MaxArgs :
    \E ads \in DeviceSeqs(ni) :
      c = [Call(None, None, ads, Fun(PrimJaxpr(ni), <<>>)) EXCEPT !.prim = TRUE]

\* ------------------------------------------------ functions on programs

SeqToSet(s) == {s[i] : i \in DOMAIN s}

\* The elements of s at the positions in K, in order.
RECURSIVE Pick(_, _)
Pick(s, K) ==
  IF s = <<>> THEN <<>>
  ELSE LET n == Len(s)
           front == Pick(SubSeq(s, 1, n - 1), K)
       IN IF n \in K THEN Append(front, s[n]) ELSE front

MaxOf(S, default) ==
  IF S = {} THEN default ELSE CHOOSE m \in S : \A n \in S : n <= m

\* core.subjaxprs: the programs held by the parameters of the equations.
subjaxprs(j) ==
  UNION { { LET p == j.eqns[i].params[n]
            IN IF p.type = "Jaxpr" THEN p.val ELSE p.val.jaxpr
            : n \in {m \in DOMAIN j.eqns[i].params :
                       j.eqns[i].params[m].type \in {"Jaxpr", "ClosedJaxpr"}} }
          : i \in DOMAIN j.eqns }

\* xla._initial_style_primitives
initial_style_primitives == {"while", "cond", "scan"}

RECURSIVE jaxpr_replicas(_)
RECURSIVE eqn_replicas(_)
\* initial_style_primitive_replicas: the largest jaxpr_replicas over the
\* parameters that hold a program.
initial_style_primitive_replicas(params) ==
  MaxOf({ jaxpr_replicas(params[n].val)
          : n \in {m \in DOMAIN params :
                     params[m].type \in {"Jaxpr", "ClosedJaxpr"}} }, 1)

\* eqn_replicas that multiplies by axis_size whether or not the equation
\* holds a call_jaxpr.
eqn_replicas_any_axis(eqn) ==
  (IF "axis_size" \in DOMAIN eqn.params THEN eqn.params["axis_size"].val ELSE 1)
  * (IF "call_jaxpr" \in DOMAIN eqn.params
     THEN jaxpr_replicas(eqn.params["call_jaxpr"].val)
     ELSE IF eqn.primitive \in initial_style_primitives
     THEN initial_style_primitive_replicas(eqn.params)
     ELSE 1)

\* eqn_replicas
eqn_replicas(eqn) ==
  IF "call_jaxpr" \in DOMAIN eqn.params
  THEN (IF "axis_size" \in DOMAIN eqn.params
        THEN eqn.params["axis_size"].val ELSE 1)
       * jaxpr_replicas(eqn.params["call_jaxpr"].val)
  ELSE IF eqn.primitive \in initial_style_primitives
  THEN initial_style_primitive_replicas(eqn.params)
  ELSE 1

\* jaxpr_replicas: a ClosedJaxpr is unwrapped; the maximum over the
\* equations, 1 when there is none.
jaxpr_replicas(j) ==
  LET jp == IF "jaxpr" \in DOMAIN j THEN j.jaxpr ELSE j
  IN MaxOf({eqn_replicas(jp.eqns[i]) : i \in DOMAIN jp.eqns}, 1)

\* The test 'xla_pmap' in eqn.primitive.name, over the names of the model.
NameHasPmap(name) == name \in {"xla_pmap"}

RECURSIVE jaxpr_has_pmap(_)
\* jaxpr_has_pmap
jaxpr_has_pmap(j) ==
  \/ \E i \in DOMAIN j.eqns : NameHasPmap(j.eqns[i].primitive)
  \/ \E s \in subjaxprs(j) : jaxpr_has_pmap(s)

\* The variables _prune_unused_inputs counts as used, seeded by the outputs only.
used_vars_outputs_only(j) == {v \in SeqToSet(j.outvars) : IsVar(v)}

\* The variables _prune_unused_inputs counts as used: the outputs that are
\* variables and the variables every equation reads.
used_vars(j) ==
  {v \in SeqToSet(j.outvars) : IsVar(v)}
  \cup UNION { {v \in SeqToSet(j.eqns[i].invars) : IsVar(v)} : i \in DOMAIN j.eqns }

\* _prune_unused_inputs that returns the positions in the new jaxpr.
prune_unused_inputs_renumbered(j) ==
  LET used == used_vars(j)
      kc == {i \in DOMAIN j.constvars : j.constvars[i] \in used}
      kv == {i \in DOMAIN j.invars : j.invars[i] \in used}
  IN [jaxpr |-> Jaxpr(Pick(j.constvars, kc), Pick(j.invars, kv),
                      j.outvars, j.eqns),
      kept_const_idx |-> 1..Cardinality(kc),
      kept_var_idx |-> 1..Cardinality(kv)]

\* _prune_unused_inputs: the new jaxpr and the kept positions.
prune_unused_inputs(j) ==
  LET used == used_vars(j)
      kc == {i \in DOMAIN j.constvars : j.constvars[i] \in used}
      kv == {i \in DOMAIN j.invars : j.invars[i] \in used}
  IN [jaxpr |-> Jaxpr(Pick(j.constvars, kc), Pick(j.invars, kv),
                      j.outvars, j.eqns),
      kept_const_idx |-> kc,
      kept_var_idx |-> kv]

NoError == [kind |-> "none", at |-> "none", devices |-> <<>>]

Raise(kind, at, devs) == [kind |-> kind, at |-> at, devices |-> devs]

\* _device_from_arg_devices that takes the first device and never raises.
device_from_arg_devices_first(devs) ==
  LET ds == {i \in DOMAIN devs : devs[i] # None}
  IN IF ds = {} THEN [err |-> "none", device |-> None]
     ELSE [err |-> "none",
           device |-> devs[CHOOSE i \in ds : \A k \in ds : i <= k]]

\* _device_from_arg_devices: the device, or the colocation ValueError.
device_from_arg_devices(devs) ==
  LET ds == {d \in SeqToSet(devs) : d # None}
  IN IF ds = {} THEN [err |-> "none", device |-> None]
     ELSE IF Cardinality(ds) = 1
     THEN [err |-> "none", device |-> CHOOSE d \in ds : TRUE]
     ELSE [err |-> "ValueError", device |-> Unset]

\* xb.get_backend(backend).get_default_device_assignment(1)[0]
DefaultDevice(be) == IF be = "tpu" THEN "T0" ELSE "A"

\* _xla_callable_device that applies the colocation rule whatever nreps is.
xla_callable_device_colocating(n, be, dev, devs) ==
  IF dev = None /\ be = None THEN device_from_arg_devices(devs)
  ELSE IF n > 1 THEN [err |-> "ValueError", device |-> Unset]
  ELSE IF dev # None /\ be = None THEN [err |-> "none", device |-> dev]
  ELSE IF dev = None /\ be # None
  THEN [err |-> "none", device |-> DefaultDevice(be)]
  ELSE [err |-> "AssertionError", device |-> Unset]

\* _xla_callable_device
xla_callable_device(n, be, dev, devs) ==
  IF n > 1
  THEN IF dev # None \/ be # None
       THEN [err |-> "ValueError", device |-> Unset]
       ELSE [err |-> "none", device |-> None]
  ELSE IF dev = None /\ be = None THEN device_from_arg_devices(devs)
  ELSE IF dev # None /\ be = None THEN [err |-> "none", device |-> dev]
  ELSE IF dev = None /\ be # None
  THEN [err |-> "none", device |-> DefaultDevice(be)]
  ELSE [err |-> "AssertionError", device |-> Unset]

\* xb.get_device_backend(device) if device else xb.get_backend(backend)
ResolveBackend(dev, be) ==
  IF dev # None THEN (IF dev = "T0" THEN "tpu" ELSE "cpu")
  ELSE IF be = None THEN "cpu" ELSE be

\* --------------------------------------- lower_xla_callable, step by step

NoResult == [is_trivial |-> FALSE, hlo |-> "none", executable |-> FALSE]

NoEnv == [device_count |-> 0, process_count |-> 0]

\* output_buffer_counts is None
NoCounts == [is_none |-> TRUE, counts |-> <<>>]

\* What a run did that its locals do not keep.
NoObs ==
  [warnings         |-> {},  \* the warnings issued: "jit-of-pmap", "donation"
   unused_donations |-> {},  \* retained positions the donation warning lists
   aliased          |-> {},  \* retained positions set_up_aliases aliased
   ncompilecalls    |-> 0,   \* compile() calls made
   created          |-> 0,   \* XlaCompiledComputation objects constructed
   returned         |-> {},  \* the objects compile() has returned, by number
   nbackend         |-> 0,   \* backend.compile invocations
   strategy         |-> "none", \* the execute function bound into unsafe_call
   buffer_counts    |-> NoCounts, \* output_buffer_counts bound into unsafe_call
   ncalls           |-> 0,   \* calls of the compiled computation
   ran              |-> <<>>,   \* the strategy each call ran
   checked          |-> <<>>,   \* last call: positions whose avals were checked
   bound            |-> <<>>,   \* last call: positions bound to the invars
   transferred      |-> <<>>,   \* last call: positions put on the device
   nexecute         |-> 0,   \* last call: invocations of the executable
   groups           |-> <<>>]   \* last call: the buffers each handler was given

\* The statement groups of a run, in program order.
Stages ==
  <<"prim", "start", "trace", "prune", "prefetch", "resolve", "trivial", "replicas",
    "multihost", "build", "lowered", "compiled", "called">>

StageNo(s) == CHOOSE i \in DOMAIN Stages : Stages[i] = s

\* Statement group s has run (to its end, or to the error it raised).
Ran(s) ==
  IF pc = "error" THEN StageNo(error.at) >= StageNo(s)
  ELSE pc # "idle" /\ StageNo(pc) > StageNo(s)

Fail(kind, devs) ==
  /\ error' = Raise(kind, pc, devs)
  /\ pc' = "error"

\* xla_primitive_callable up to its call of _xla_callable_uncached: the device
\* is taken from the devices of all the argument specs, then the builder is
\* called with that device, no backend and no donation.
PrimitiveCallable ==
  /\ pc = "prim"
  /\ LET r == device_from_arg_devices(inp.arg_devices)
     IN IF r.err # "none"
        THEN Fail(r.err, inp.arg_devices) /\ UNCHANGED inp
        ELSE /\ inp' = [inp EXCEPT !.device = r.device]
             /\ pc' = "start"
             /\ UNCHANGED error
  /\ UNCHANGED <<obs, jaxpr, consts, kept_const_idx, kept_var_idx, arg_devices,
                 donated_invars, nreps, device, backend, env, result, calls, out>>
  /\ UNCHANGED <<cvars, xvars>>

\* A device/backend test that never rejects.
DeviceAndBackend_never(dev, be) == FALSE

\* device is not None and backend is not None
DeviceAndBackend(dev, be) == dev # None /\ be # None

\* The first statement: device and backend are mutually exclusive.
CheckDeviceBackend ==
  /\ pc = "start"
  /\ IF DeviceAndBackend(inp.device, inp.backend)
     THEN Fail("ValueError", <<inp.device, inp.backend>>)
     ELSE pc' = "trace" /\ UNCHANGED error
  /\ UNCHANGED <<obs, inp, jaxpr, consts, kept_const_idx, kept_var_idx, arg_devices,
                 donated_invars, nreps, device, backend, env, result, calls, out>>
  /\ UNCHANGED <<cvars, xvars>>

\* pe.trace_to_jaxpr_final, and the check for leaked tracers among the consts.
TraceToJaxpr ==
  /\ pc = "trace"
  /\ jaxpr' = inp.fun.jaxpr
  /\ consts' = inp.fun.consts
  /\ arg_devices' = inp.arg_devices
  /\ IF \E i \in DOMAIN inp.fun.consts : inp.fun.consts[i].kind = "Tracer"
     THEN Fail("UnexpectedTracerError", <<>>)
     ELSE pc' = "prune" /\ UNCHANGED error
  /\ UNCHANGED <<obs, inp, kept_const_idx, kept_var_idx, donated_invars, nreps,
                 device, backend, env, result, calls, out>>
  /\ UNCHANGED <<cvars, xvars>>

\* Argument devices that are left as they were passed in.
pruned_arg_devices_all(ads, kept) == ads

\* The devices of pruned_arg_specs.
pruned_arg_devices(ads, kept) == Pick(ads, kept)

\* _prune_unused_inputs and the filtering of consts, arg_specs, donated_invars.
PruneUnusedInputs ==
  /\ pc = "prune"
  /\ LET r == prune_unused_inputs(jaxpr)
     IN /\ jaxpr' = r.jaxpr
        /\ kept_const_idx' = r.kept_const_idx
        /\ kept_var_idx' = r.kept_var_idx
        /\ consts' = Pick(consts, r.kept_const_idx)
        /\ arg_devices' = pruned_arg_devices(inp.arg_devices, r.kept_var_idx)
        /\ donated_invars' = Pick(inp.donated_invars, r.kept_var_idx)
  /\ pc' = "prefetch"
  /\ UNCHANGED <<obs, inp, nreps, device, backend, env, result, error, calls, out>>
  /\ UNCHANGED <<cvars, xvars>>

\* prefetch: a DeviceArray starts its copy to the host.
prefetch(x) ==
  IF x.kind = "DeviceArray" THEN {"copy_to_host_async"} ELSE {}

\* map(prefetch, chain(consts, jaxpr_literals(jaxpr))); the literals of the
\* model are host scalars. apply_outfeed_rewriter: no rewriter is set.
Prefetch ==
  /\ pc = "prefetch"
  /\ calls' = calls \cup UNION {prefetch(consts[i]) : i \in DOMAIN consts}
  /\ pc' = "resolve"
  /\ UNCHANGED <<obs, inp, jaxpr, consts, kept_const_idx, kept_var_idx, arg_devices,
                 donated_invars, nreps, device, backend, env, result, error, out>>
  /\ UNCHANGED <<cvars, xvars>>

\* nreps = jaxpr_replicas(jaxpr); device = _xla_callable_device(...);
\* backend = the device's backend, or xb.get_backend(backend).
ResolveDevice ==
  /\ pc = "resolve"
  /\ LET n == jaxpr_replicas(jaxpr)
         r == xla_callable_device(n, inp.backend, inp.device, arg_devices)
     IN /\ nreps' = n
        /\ IF r.err # "none"
           THEN /\ Fail(r.err, IF n > 1 THEN <<inp.device, inp.backend>>
                               ELSE arg_devices)
                /\ UNCHANGED <<device, backend>>
           ELSE /\ device' = r.device
                /\ backend' = ResolveBackend(r.device, inp.backend)
                /\ pc' = "trivial"
                /\ UNCHANGED error
  /\ UNCHANGED <<obs, inp, jaxpr, consts, kept_const_idx, kept_var_idx, arg_devices,
                 donated_invars, env, result, calls, out>>
  /\ UNCHANGED <<cvars, xvars>>

\* A triviality test that sends every program to the builder.
no_eqns_never(j) == FALSE

\* not jaxpr.eqns
no_eqns(j) == Len(j.eqns) = 0

\* Computations with no equations return a trivial XlaComputation.
CheckTrivial ==
  /\ pc = "trivial"
  /\ IF no_eqns(jaxpr)
     THEN /\ result' = [is_trivial |-> TRUE, hlo |-> None, executable |-> FALSE]
          /\ pc' = "lowered"
     ELSE /\ pc' = "replicas"
          /\ UNCHANGED result
  /\ UNCHANGED <<obs, inp, jaxpr, consts, kept_const_idx, kept_var_idx, arg_devices,
                 donated_invars, nreps, device, backend, env, error, calls, out>>
  /\ UNCHANGED <<cvars, xvars>>

\* A replica test that lets every replica count through.
too_many_replicas_never(n, count) == FALSE

\* nreps > xb.device_count(backend)
too_many_replicas(n, count) == n > count

\* The jit-of-pmap warning, then the replica count is checked against the
\* backend's device count.
CheckReplicas ==
  /\ pc = "replicas"
  /\ obs' = [obs EXCEPT
       !.warnings = IF nreps > 1 THEN @ \cup {"jit-of-pmap"} ELSE @]
  /\ \E count \in 1..MaxDevCount :
       /\ env' = [env EXCEPT !.device_count = count]
       /\ IF too_many_replicas(nreps, count)
          THEN Fail("ValueError", <<>>)
          ELSE pc' = "multihost" /\ UNCHANGED error
  /\ UNCHANGED <<inp, jaxpr, consts, kept_const_idx, kept_var_idx, arg_devices,
                 donated_invars, nreps, device, backend, result, calls, out>>
  /\ UNCHANGED <<cvars, xvars>>

ProcessCounts == {1, 2}

\* The multi-host test with both conditions required.
multi_host_pmap_both(procs, n, j) ==
  procs > 1 /\ (n > 1 /\ jaxpr_has_pmap(j))

\* xb.process_count() > 1 and (nreps > 1 or jaxpr_has_pmap(jaxpr))
multi_host_pmap(procs, n, j) ==
  procs > 1 /\ (n > 1 \/ jaxpr_has_pmap(j))

\* jit of multi-host pmap is not implemented.
CheckMultiHost ==
  /\ pc = "multihost"
  /\ \E procs \in ProcessCounts :
       /\ env' = [env EXCEPT !.process_count = procs]
       /\ IF multi_host_pmap(procs, nreps, jaxpr)
          THEN Fail("NotImplementedError", <<>>)
          ELSE pc' = "build" /\ UNCHANGED error
  /\ UNCHANGED <<obs, inp, jaxpr, consts, kept_const_idx, kept_var_idx, arg_devices,
                 donated_invars, nreps, device, backend, result, calls, out>>
  /\ UNCHANGED <<cvars, xvars>>

\* platform in ("gpu", "tpu")
supports_aliasing(platform) == platform \in {"gpu", "tpu"}

\* xla.set_up_aliases: the sets of donated parameters it may alias, each to
\* an output of its own.
Aliasings(donated, nouts) ==
  {A \in SUBSET {i \in DOMAIN donated : donated[i]} : Cardinality(A) <= nouts}

\* A donation report that lists nothing.
unused_donations_none(donated) == {}

\* The parameters whose donation flag is still set: the ones the warning lists.
unused_donations(donated) == {i \in DOMAIN donated : donated[i]}

\* The XlaBuilder is filled, the donated parameters are aliased where the
\* platform can, the rest are reported in a warning, and the computation is
\* built; a non-trivial XlaComputation returns.
Build ==
  /\ pc = "build"
  /\ \E A \in (IF supports_aliasing(backend)
               THEN Aliasings(donated_invars, Len(jaxpr.outvars))
               ELSE {{}}) :
       LET after == [i \in DOMAIN donated_invars |->
                       donated_invars[i] /\ i \notin A]
           unused == unused_donations(after)
       IN /\ donated_invars' = after
          /\ obs' = [obs EXCEPT
               !.aliased = A,
               !.unused_donations = unused,
               !.warnings = IF unused # {} THEN @ \cup {"donation"} ELSE @]
  /\ calls' = calls \cup {"build"}
  /\ result' = [is_trivial |-> FALSE, hlo |-> "built", executable |-> FALSE]
  /\ pc' = "lowered"
  /\ UNCHANGED <<inp, jaxpr, consts, kept_const_idx, kept_var_idx, arg_devices,
                 nreps, device, backend, env, error, out>>
  /\ UNCHANGED <<cvars, xvars>>

\* if self._executable is None, read as always true.
executable_unset_always(a) == TRUE

\* if self._executable is None
executable_unset(a) == a.executable = FALSE

\* The execute function with one strategy for every compiled program.
choose_strategy_single(is_trivial, n) ==
  IF is_trivial THEN "trivial" ELSE "compiled"

\* The execute function bound into unsafe_call: _execute_trivial by
\* from_trivial_jaxpr, else _execute_compiled if nreps == 1, else
\* _execute_replicated.
choose_strategy(is_trivial, n) ==
  IF is_trivial THEN "trivial"
  ELSE IF n = 1 THEN "compiled"
  ELSE "replicated"

\* len(xla.aval_to_xla_shapes(aval)): the buffers one output is made of.
BufferCounts == {1, 2}

\* buffer_counts of from_xla_computation: None if len(out_avals) == 1, else
\* the buffer count of every output.
OutputBufferCounts(nout) ==
  IF nout = 1 THEN {NoCounts}
  ELSE {[is_none |-> FALSE, counts |-> c] : c \in [1..nout -> BufferCounts]}

\* compile_or_get_cached: the persistent cache is asked on tpu only, and
\* only when it is initialized; a hit saves the backend compile.
CacheHits(platform) == IF platform = "tpu" THEN BOOLEAN ELSE {FALSE}

\* XlaComputation.compile: the first call makes the XlaCompiledComputation,
\* from_trivial_jaxpr or from_xla_computation (which compiles on the backend
\* and reads the buffer count of every output); every call returns
\* self._executable.
Compile ==
  /\ pc \in {"lowered", "compiled", "called"}
  /\ obs.ncompilecalls + obs.ncalls < MaxUses
  /\ IF executable_unset(result)
     THEN /\ result' = [result EXCEPT !.executable = TRUE]
          /\ \E hit \in CacheHits(backend),
                cnt \in OutputBufferCounts(Len(jaxpr.outvars)) :
               LET compiles == ~result.is_trivial /\ ~hit
               IN /\ calls' = calls \cup (IF compiles THEN {"compile"} ELSE {})
                  /\ obs' = [obs EXCEPT
                       !.ncompilecalls = @ + 1,
                       !.created = @ + 1,
                       !.returned = @ \cup {obs.created + 1},
                       !.nbackend = IF compiles THEN @ + 1 ELSE @,
                       !.strategy = choose_strategy(result.is_trivial, nreps),
                       !.buffer_counts = IF result.is_trivial THEN NoCounts
                                         ELSE cnt]
     ELSE /\ obs' = [obs EXCEPT !.ncompilecalls = @ + 1,
                                !.returned = @ \cup {obs.created}]
          /\ UNCHANGED <<result, calls>>
  /\ pc' = IF pc = "lowered" THEN "compiled" ELSE pc
  /\ UNCHANGED <<inp, jaxpr, consts, kept_const_idx, kept_var_idx, arg_devices,
                 donated_invars, nreps, device, backend, env, error, out>>
  /\ UNCHANGED <<cvars, xvars>>

\* The arguments of the call: argument i, core.token or an array, which is a
\* DeviceArray when it has a device.
Args ==
  [i \in DOMAIN inp.arg_devices |->
     [data |-> <<"arg", i>>,
      kind |-> IF i \in inp.tokens THEN "token"
               ELSE IF inp.arg_devices[i] = None THEN "ndarray"
               ELSE "DeviceArray"]]

Position(s, v) == CHOOSE i \in DOMAIN s : s[i] = v

\* The positions 1..n of the arguments, as enumerate(args) gives them.
Positions(args) == [i \in DOMAIN args |-> i]

\* A selection that takes every argument, kept or not.
kept_positions_all(args, kept) == Positions(args)

\* (i for i, x in enumerate(args) if i in kept_var_idx)
kept_positions(args, kept) == Pick(Positions(args), kept)

\* xla.canonicalize_dtype(v.val): the literal's value in the canonical dtype
\* of its type.
canonicalize_dtype(val) == <<"canonical", val>>

\* _execute_trivial that binds the invars to the arguments as they come.
execute_trivial_unpruned(j, cs, kept, args) ==
  LET lookup(v) ==
        IF \E i \in DOMAIN j.invars : j.invars[i] = v
        THEN args[Position(j.invars, v)]
        ELSE cs[Position(j.constvars, v)]
  IN [o \in DOMAIN j.outvars |->
        IF IsVar(j.outvars[o]) THEN lookup(j.outvars[o])
        ELSE [data |-> canonicalize_dtype(j.outvars[o][2]), kind |-> "ndarray"]]

\* _execute_trivial: the outputs, before they are put on the device. The
\* environment binds invars to the kept arguments and constvars to consts.
execute_trivial(j, cs, kept, args) ==
  LET pruned == Pick(args, kept)
      lookup(v) ==
        IF \E i \in DOMAIN j.invars : j.invars[i] = v
        THEN pruned[Position(j.invars, v)]
        ELSE cs[Position(j.constvars, v)]
  IN [o \in DOMAIN j.outvars |->
        IF IsVar(j.outvars[o]) THEN lookup(j.outvars[o])
        ELSE [data |-> canonicalize_dtype(j.outvars[o][2]), kind |-> "ndarray"]]

\* What putting a value on the device asks of the backend: a DeviceArray is
\* copied when a device is given, a token needs nothing, any other value
\* becomes a new buffer.
PutCalls(x, dev) ==
  IF x.kind = "DeviceArray"
  THEN (IF dev = None THEN {} ELSE {"copy_to_device"})
  ELSE IF x.kind = "token" THEN {}
  ELSE {"buffer_from_pyval"}

\* The transfer that takes the tokens along.
transfer_positions_with_tokens(args, kept) == kept_positions(args, kept)

\* The arguments _execute_compiled and _execute_replicated put on the device:
\* for i, x in enumerate(args) if x is not core.token and i in kept_var_idx
transfer_positions(args, kept) ==
  LET sel == {i \in DOMAIN args : args[i].kind # "token" /\ i \in kept}
  IN Pick(Positions(args), sel)

RECURSIVE SumOf(_)
SumOf(counts) ==
  IF counts = <<>> THEN 0 ELSE counts[1] + SumOf(Tail(counts))

\* xla._partition_outputs: consecutive groups of the given sizes.
RECURSIVE partition_outputs(_, _)
partition_outputs(counts, bufs) ==
  IF counts = <<>> THEN <<>>
  ELSE <<SubSeq(bufs, 1, counts[1])>>
       \o partition_outputs(Tail(counts), SubSeq(bufs, counts[1] + 1, Len(bufs)))

\* The buffers the executable returns: as many as the outputs are made of
\* (one output is one array).
OutBuffers(bc) ==
  [b \in 1..(IF bc.is_none THEN 1 ELSE SumOf(bc.counts)) |-> b]

\* The groups of output buffers the handlers are called with: all of them to
\* handlers[0] when output_buffer_counts is None, else one group per output.
handler_groups(bc, bufs) ==
  IF bc.is_none THEN <<bufs>> ELSE partition_outputs(bc.counts, bufs)

\* The result of a value put on the device and handed to its handler.
OnDevice(x) ==
  [data |-> x.data, kind |-> IF x.kind = "token" THEN "token" ELSE "DeviceArray"]

\* A call of the compiled computation with the arguments it was lowered
\* for: XlaCompiledComputation.call checks the avals of the kept arguments,
\* then unsafe_call runs _execute_trivial, or transfers the kept arguments
\* and executes the executable once.
CallCompiled ==
  /\ pc \in {"compiled", "called"}
  /\ obs.ncompilecalls + obs.ncalls < MaxUses
  /\ LET checked == kept_positions(Args, kept_var_idx)
       IN IF obs.strategy = "trivial"
          THEN LET outs == execute_trivial(jaxpr, consts, kept_var_idx, Args)
               IN /\ out' = [o \in DOMAIN outs |-> OnDevice(outs[o])]
                  /\ calls' = calls \cup
                       UNION {PutCalls(outs[o], device) : o \in DOMAIN outs}
                  /\ obs' = [obs EXCEPT
                       !.ncalls = @ + 1,
                       !.ran = Append(@, "trivial"),
                       !.checked = checked,
                       !.bound = kept_positions(Args, kept_var_idx),
                       !.transferred = <<>>,
                       !.nexecute = 0,
                       !.groups = <<>>]
          ELSE LET sent == transfer_positions(Args, kept_var_idx)
                   bufs == OutBuffers(obs.buffer_counts)
                   groups == handler_groups(obs.buffer_counts, bufs)
               IN /\ out' = [o \in DOMAIN groups |->
                               [data |-> <<"out", o>>, kind |-> "DeviceArray"]]
                  /\ calls' = calls \cup {"execute"} \cup
                       UNION {PutCalls(Args[sent[k]], device) : k \in DOMAIN sent}
                  /\ obs' = [obs EXCEPT
                       !.ncalls = @ + 1,
                       !.ran = Append(@, obs.strategy),
                       !.checked = checked,
                       !.bound = <<>>,
                       !.transferred = sent,
                       !.nexecute = 1,
                       !.groups = groups]
  /\ pc' = "called"
  /\ UNCHANGED <<inp, jaxpr, consts, kept_const_idx, kept_var_idx, arg_devices,
                 donated_invars, nreps, device, backend, env, result, error>>
  /\ UNCHANGED <<cvars, xvars>>

\* ================================================ Part III: the calls

\* The abstract values of the outputs: the registered types, float0 among
\* the shaped arrays, and a type with no result handler.
OutAvals ==
  {[type |-> "ShapedArray", dtype |-> d] : d \in {"f32", "i32", "float0"}}
  \cup {[type |-> "ConcreteArray", dtype |-> "f32"],
        [type |-> "AbstractUnit", dtype |-> "none"],
        [type |-> "AbstractToken", dtype |-> "none"],
        [type |-> "UnregisteredAval", dtype |-> "none"]}

\* The keys of xla_result_handlers.
xla_result_handlers ==
  {"AbstractUnit", "ShapedArray", "ConcreteArray", "AbstractToken"}

Handler(kind, dev, aval) == [kind |-> kind, device |-> dev, aval |-> aval]

\* array_result_handler without the float0 case.
array_result_handler_no_float0(dev, aval) == Handler("device_array", dev, aval)

\* array_result_handler: zeros for float0, else make_device_array bound to
\* the aval and the device.
array_result_handler(dev, aval) ==
  IF aval.dtype = "float0" THEN Handler("zeros", None, aval)
  ELSE Handler("device_array", dev, aval)

\* aval_to_result_handler: the handler the registry makes for the type, or
\* TypeError when the type is not registered.
aval_to_result_handler(dev, aval) ==
  IF aval.type \notin xla_result_handlers THEN Handler("TypeError", None, aval)
  ELSE IF aval.type = "AbstractUnit" THEN Handler("unit", None, aval)
  ELSE IF aval.type = "AbstractToken" THEN Handler("token", None, aval)
  ELSE array_result_handler(dev, aval)

NoBuf == [id |-> 0, health |-> "ok", inexact |-> FALSE, is_device_array |-> FALSE]

\* What a handler returns for a buffer.
ApplyHandler(h, buf) ==
  IF h.kind = "unit"
  THEN [kind |-> "unit", device |-> None, buffer |-> NoBuf, aval |-> h.aval]
  ELSE IF h.kind = "token"
  THEN [kind |-> "token", device |-> None, buffer |-> NoBuf, aval |-> h.aval]
  ELSE IF h.kind = "zeros"
  THEN [kind |-> "ndarray", device |-> None, buffer |-> NoBuf, aval |-> h.aval]
  ELSE [kind |-> "DeviceArray", device |-> h.device, buffer |-> buf,
        aval |-> h.aval]

\* The health of the values in an output buffer.
Health == {"ok", "nan", "inf"}

\* The output buffer of an aval: only a floating-point buffer can hold a NaN
\* or an Inf (a float0 output is a buffer of booleans).
OutBufs(aval) ==
  IF aval.dtype = "f32"
  THEN {[id |-> 1, health |-> h, inexact |-> TRUE, is_device_array |-> FALSE]
        : h \in Health}
  ELSE {[id |-> 1, health |-> "ok", inexact |-> FALSE, is_device_array |-> FALSE]}

\* An output of _execute_trivial is an argument or a constant: a DeviceArray
\* or a host value, which device_put turns into a buffer.
TrivialOuts(aval) ==
  {[b EXCEPT !.is_device_array = da] :
     b \in OutBufs(aval),
     da \in IF aval.type \in {"ShapedArray", "ConcreteArray"} /\ aval.dtype # "float0"
            THEN BOOLEAN ELSE {FALSE}}

\* _copy_device_array_to_device(x, device): x itself when no device is given.
copy_device_array_to_device(buf, dev, aval) ==
  [kind |-> "DeviceArray", device |-> IF dev = None THEN "own" ELSE dev,
   buffer |-> buf, aval |-> aval]

\* needs_check_special
needs_check_special(c) == c.debug_infs \/ c.debug_nans

\* _check_special that tests for NaN only.
check_special_buf_nan_only(c, buf) ==
  buf.inexact /\ c.debug_nans /\ buf.health = "nan"

\* _check_special: FloatingPointError for a NaN under debug_nans or an Inf
\* under debug_infs in a floating-point buffer.
check_special_buf(c, buf) ==
  buf.inexact /\ \/ c.debug_nans /\ buf.health = "nan"
                 \/ c.debug_infs /\ buf.health = "inf"

\* check_special: nothing is looked at unless a debug mode is on.
check_special(c, bufs) ==
  needs_check_special(c) /\ \E i \in DOMAIN bufs : check_special_buf(c, bufs[i])

\* core.typematch on the abstract values of the model.
typematch(ref, aval) == ref = aval

\* The check with the count test left out.
check_arg_avals_types_only(ref_avals, arg_avals) ==
  IF \E i \in DOMAIN ref_avals \cap DOMAIN arg_avals :
       ~typematch(ref_avals[i], arg_avals[i])
  THEN "TypeError" ELSE "none"

\* check_arg_avals_for_call
check_arg_avals_for_call(ref_avals, arg_avals) ==
  IF Len(ref_avals) # Len(arg_avals) THEN "TypeError"
  ELSE IF \E i \in DOMAIN ref_avals : ~typematch(ref_avals[i], arg_avals[i])
  THEN "TypeError"
  ELSE "none"

\* An except clause that catches every error of the compiled call.
catches_any(entry, err) == entry = "xla_call_impl"

\* The one handler around the compiled call: except FloatingPointError in
\* _xla_call_impl. apply_primitive and call have none.
catches(entry, err) == entry = "xla_call_impl" /\ err = "FloatingPointError"

\* The lowered computations: trivial or not, the replica count, the kept
\* positions among nargs arguments (all f32 when lowered), one output.
Lowered(triv, n, nargs, kept, aval, dev) ==
  [is_trivial |-> triv, nreps |-> n, nargs |-> nargs, kept_var_idx |-> kept,
   in_avals |-> [i \in 1..Cardinality(kept) |-> "f32"],
   out_avals |-> <<aval>>, device |-> dev,
   strategy |-> "none", handlers |-> <<>>]

NoComp == Lowered(FALSE, 0, 0, {}, [type |-> "none", dtype |-> "none"], None)

IsLowered(c) ==
  \E triv \in BOOLEAN, n \in 1..2, nargs \in 0..MaxArgs, aval \in OutAvals,
     dev \in {None, "A"} :
    \E kept \in SUBSET (1..nargs) :
      /\ triv => n = 1
      /\ c = Lowered(triv, n, nargs, kept, aval, dev)

Configs == [debug_nans : BOOLEAN, debug_infs : BOOLEAN]

NoXCall == [entry |-> "none", args |-> <<>>]

EmptyLog ==
  [nchecks   |-> 0,      \* check_arg_avals_for_call runs
   nexec     |-> 0,      \* invocations of the backend executable
   nspecial  |-> 0,      \* check_special passes that looked at the buffers
   nhandlers |-> 0,      \* result handlers applied
   nreexec   |-> 0,      \* uncompiled re-executions
   raw       |-> <<>>,   \* the raw output buffers
   results   |-> <<>>,   \* the results returned
   raised    |-> "none", \* the error the compiled call raised
   error     |-> "none"] \* the error that reached the caller

\* from_trivial_jaxpr / from_xla_computation: the result handlers and the
\* execution strategy are fixed here.
CompileComputation ==
  /\ xpc = "lowered"
  /\ LET hs == [i \in DOMAIN comp.out_avals |->
                  aval_to_result_handler(comp.device, comp.out_avals[i])]
     IN IF \E i \in DOMAIN hs : hs[i].kind = "TypeError"
        THEN /\ xpc' = "raised"
             /\ xlog' = [xlog EXCEPT !.error = "TypeError"]
             /\ UNCHANGED comp
        ELSE /\ xpc' = "compiled"
             /\ comp' = [comp EXCEPT
                  !.handlers = hs,
                  !.strategy = choose_strategy(comp.is_trivial, comp.nreps)]
             /\ UNCHANGED xlog
  /\ UNCHANGED <<cfg, xcall, cvars, lvars>>

\* An entry point that checks the arguments whatever it is.
checks_args_always(entry) == TRUE

\* XlaCompiledComputation.call checks the arguments and then calls
\* unsafe_call; the cached entry points hold unsafe_call itself.
checks_args(entry) == entry = "call"

\* The ways into the computation: XlaCompiledComputation.call, and
\* unsafe_call as the two cached entry points hold it.
Entries == {"call", "xla_call_impl", "apply_primitive"}

\* The arguments the computation was lowered for.
LoweredArgs == [i \in 1..comp.nargs |-> "f32"]

\* The arguments of a call: the cached entry points call what their key
\* selected, so with the arguments of the key; call is given any of: the
\* same arguments, one more, one fewer, one of another dtype.
CallArgs(e) ==
  IF e # "call" THEN {LoweredArgs}
  ELSE {LoweredArgs, Append(LoweredArgs, "f32")}
       \cup {SubSeq(LoweredArgs, 1, comp.nargs - 1) : n \in {comp.nargs} \ {0}}
       \cup {[LoweredArgs EXCEPT ![i] = "i32"] : i \in 1..comp.nargs}

StartCall ==
  /\ xpc = "compiled"
  /\ \E e \in Entries : \E a \in CallArgs(e) :
       /\ xcall' = [entry |-> e, args |-> a]
       /\ xpc' = IF checks_args(e) THEN "check" ELSE "execute"
  /\ UNCHANGED <<comp, cfg, xlog, cvars, lvars>>

\* XlaCompiledComputation.call: the avals of the arguments at the kept
\* positions are checked against in_avals.
CheckArgAvals ==
  /\ xpc = "check"
  /\ LET arg_avals == Pick(xcall.args, comp.kept_var_idx)
         err == check_arg_avals_for_call(comp.in_avals, arg_avals)
     IN IF err # "none"
        THEN /\ xpc' = "raised"
             /\ xlog' = [xlog EXCEPT !.nchecks = @ + 1, !.error = err]
        ELSE /\ xpc' = "execute"
             /\ xlog' = [xlog EXCEPT !.nchecks = @ + 1]
  /\ UNCHANGED <<comp, cfg, xcall, cvars, lvars>>

\* unsafe_call up to the raw outputs: _execute_trivial reads them from its
\* environment, _execute_compiled and _execute_replicated run the executable,
\* which may fail.
Execute ==
  /\ xpc = "execute"
  /\ IF comp.strategy = "trivial"
     THEN \E b \in TrivialOuts(comp.out_avals[1]) :
            /\ xlog' = [xlog EXCEPT !.raw = <<b>>]
            /\ xpc' = "handlers"
     ELSE \/ /\ xlog' = [xlog EXCEPT !.nexec = @ + 1,
                                      !.raised = "XlaRuntimeError"]
             /\ xpc' = "raising"
          \/ \E b \in OutBufs(comp.out_avals[1]) :
               /\ xlog' = [xlog EXCEPT !.nexec = @ + 1, !.raw = <<b>>]
               /\ xpc' = "special"
  /\ UNCHANGED <<comp, cfg, xcall, cvars, lvars>>

\* check_special(name, out_bufs) of _execute_compiled / _execute_replicated.
CheckSpecial ==
  /\ xpc = "special"
  /\ LET looked == IF needs_check_special(cfg) THEN 1 ELSE 0
     IN IF check_special(cfg, xlog.raw)
        THEN /\ xlog' = [xlog EXCEPT !.nspecial = @ + looked,
                                      !.raised = "FloatingPointError"]
             /\ xpc' = "raising"
        ELSE /\ xlog' = [xlog EXCEPT !.nspecial = @ + looked]
             /\ xpc' = "handlers"
  /\ UNCHANGED <<comp, cfg, xcall, cvars, lvars>>

\* The handlers are applied to the raw outputs and the results returned; a
\* DeviceArray output of _execute_trivial is copied to the device instead.
ApplyHandlers ==
  /\ xpc = "handlers"
  /\ xlog' = [xlog EXCEPT
       !.results = [i \in DOMAIN xlog.raw |->
                      IF xlog.raw[i].is_device_array
                      THEN copy_device_array_to_device(
                             xlog.raw[i], comp.device, comp.out_avals[i])
                      ELSE ApplyHandler(comp.handlers[i], xlog.raw[i])],
       !.nhandlers = @ + Cardinality({i \in DOMAIN xlog.raw :
                                        ~xlog.raw[i].is_device_array})]
  /\ xpc' = "done"
  /\ UNCHANGED <<comp, cfg, xcall, cvars, lvars>>

\* An error leaves the compiled call: _xla_call_impl catches
\* FloatingPointError, runs the wrapped function once more, uncompiled, and
\* either that run raises or `return out` finds no out; any other error, and
\* any error under another entry point, goes to the caller.
Propagate ==
  /\ xpc = "raising"
  /\ IF catches(xcall.entry, xlog.raised)
     THEN \E e \in {"FloatingPointError", "UnboundLocalError"} :
            xlog' = [xlog EXCEPT !.nreexec = @ + 1, !.error = e]
     ELSE xlog' = [xlog EXCEPT !.error = xlog.raised]
  /\ xpc' = "raised"
  /\ UNCHANGED <<comp, cfg, xcall, cvars, lvars>>

\* ------------------------------------------------------ specifications

IdleLower ==
  /\ pc = "idle"
  /\ inp = Call(None, None, <<>>, Fun(NoJaxpr, <<>>))
  /\ jaxpr = NoJaxpr
  /\ consts = <<>>
  /\ kept_const_idx = {}
  /\ kept_var_idx = {}
  /\ arg_devices = <<>>
  /\ donated_invars = <<>>
  /\ nreps = 0
  /\ device = Unset
  /\ backend = Unset
  /\ env = NoEnv
  /\ result = NoResult
  /\ error = NoError
  /\ calls = {}
  /\ out = <<>>
  /\ obs = NoObs

IdleExec ==
  /\ comp = NoComp
  /\ cfg = [debug_nans |-> FALSE, debug_infs |-> FALSE]
  /\ xpc = "idle"
  /\ xcall = NoXCall
  /\ xlog = EmptyLog

IdleCache ==
  /\ primCache = {}
  /\ jitCache = {}
  /\ arts = <<>>
  /\ tpc = [t \in Threads |-> "idle"]
  /\ tcall = [t \in Threads |-> NoCall]
  /\ tres = [t \in Threads |-> 0]
  /\ ninvoked = 0
  /\ hist = [c \in {"prim", "jit"} |-> EmptyHist]

\* A call of lower_xla_callable with any of the calls' arguments.
Init ==
  /\ IdleCache
  /\ IdleExec
  /\ \/ IsDataflowCall(inp)
     \/ IsColocationCall(inp)
     \/ IsPlacementCall(inp)
     \/ IsConstCall(inp)
     \/ IsDonationCall(inp)
     \/ IsMultiOutCall(inp)
     \/ IsPrimitiveCall(inp)
  /\ pc = IF inp.prim THEN "prim" ELSE "start"
  /\ jaxpr = NoJaxpr
  /\ consts = <<>>
  /\ kept_const_idx = {}
  /\ kept_var_idx = {}
  /\ arg_devices = <<>>
  /\ donated_invars = <<>>
  /\ nreps = 0
  /\ device = Unset
  /\ backend = Unset
  /\ env = NoEnv
  /\ result = NoResult
  /\ error = NoError
  /\ calls = {}
  /\ out = <<>>
  /\ obs = NoObs

Next ==
  \/ PrimitiveCallable
  \/ CheckDeviceBackend
  \/ TraceToJaxpr
  \/ PruneUnusedInputs
  \/ Prefetch
  \/ ResolveDevice
  \/ CheckTrivial
  \/ CheckReplicas
  \/ CheckMultiHost
  \/ Build
  \/ Compile
  \/ CallCompiled

\* One run: lower_xla_callable, then compile(), then one call.
Spec == Init /\ [][Next]_vars

InitCache == IdleCache /\ IdleLower /\ IdleExec

\* A lowered computation under any debug configuration.
InitExec ==
  /\ IdleCache
  /\ IdleLower
  /\ IsLowered(comp)
  /\ cfg \in Configs
  /\ xpc = "lowered"
  /\ xcall = NoXCall
  /\ xlog = EmptyLog

NextExec ==
  \/ CompileComputation
  \/ StartCall
  \/ CheckArgAvals
  \/ Execute
  \/ CheckSpecial
  \/ ApplyHandlers
  \/ Propagate

\* One computation: compile(), then one call through any entry point.
SpecExec == InitExec /\ [][NextExec]_vars

ThreadStep(t) ==
  \/ \E p \in Prims, x \in Values : apply_primitive(t, p, x)
  \/ \E f \in WrappedFuns, x \in Values : xla_call_impl(t, f, x)
  \/ LowerOk(t)
  \/ LowerFail(t)
  \/ CompileFail(t)
  \/ CompileAndStore(t)

\* The values the racing threads call with: one dtype, committed or not.
RaceValues == [dtype : {"f32"}, device : {None, "A"}]

RaceStep(t) ==
  \/ \E p \in Prims, x \in RaceValues : apply_primitive(t, p, x)
  \/ \E f \in WrappedFuns, x \in RaceValues : xla_call_impl(t, f, x)
  \/ LowerOk(t)
  \/ LowerFail(t)
  \/ CompileFail(t)
  \/ CompileAndStore(t)

NextCache == (\E t \in Threads : RaceStep(t)) \/ CacheClear

\* Dispatch calls from any thread, builds not serialized.
SpecCache == InitCache /\ [][NextCache]_vars

NextSeq == ThreadStep(1) \/ CacheClearSeq

\* Dispatch calls from one thread, one after the other.
SpecSeq == InitCache /\ [][NextSeq]_vars

\* ---------------------------------------------------- claims on the caches

CacheNames == {"prim", "jit"}

Cache(c) == IF c = "prim" THEN primCache ELSE jitCache

InFlight(t) == tpc[t] \in {"lowering", "compiling"}

\* C1: in one thread, with no cache clear in between, once a key has been
\* built successfully the cache keeps the artifact of that first build, every
\* later call with an equal key returns it, and no such call runs the builder
\* (the thread is never lowering, compiling or raising for that key again).
C1_MemoizedAfterFirstBuild ==
  \A c \in CacheNames : \A e \in hist[c].first :
    /\ CacheHas(Cache(c), e[1])
    /\ CacheGet(Cache(c), e[1]) = e[2]
    /\ (tcall[1].cache = c /\ tcall[1].key = e[1]) =>
         (tpc[1] = "ret" /\ tres[1] = e[2])

\* C1 witness: a call that hit the cache returned the first build's artifact.
C1_Witness ==
  /\ tpc[1] = "ret"
  /\ tcall[1].hit
  /\ \E c \in CacheNames : <<tcall[1].key, tres[1]>> \in hist[c].first

\* C2: in one thread, while no build has failed since the cache was cleared,
\* the builder has been invoked once per distinct (function, dtype, device)
\* the cache was called with: equal argument specs build once, another dtype
\* builds again.
C2_BuildsEqualDistinctKeys ==
  \A c \in CacheNames :
    hist[c].nfails = 0 => hist[c].nbuilds = Cardinality(hist[c].called)

\* C2 witness: two builds for two calls that differ in dtype only, and a
\* further call with one of the two specs that hit the cache.
C2_Witness ==
  /\ hist["prim"].nfails = 0
  /\ hist["prim"].nbuilds = 2
  /\ \E k1, k2 \in hist["prim"].called :
       k1[1] = k2[1] /\ k1[2] # k2[2] /\ k1[3] = k2[3]
  /\ tpc[1] = "ret" /\ tcall[1].hit /\ tcall[1].cache = "prim"

\* A thread's call has just returned from a cache hit.
HitReturns(t) ==
  /\ tpc'[t] = "ret"
  /\ tcall'[t].hit
  /\ <<tpc[t], tcall[t], tres[t]>> # <<tpc'[t], tcall'[t], tres'[t]>>

C3_Built ==
  /\ \A t \in Threads : tpc[t] = "ret" =>
       /\ tres[t] \in 1..Len(arts)
       /\ arts[tres[t]].executable
       /\ arts[tres[t]].key = tcall[t].key
  /\ \A c \in CacheNames :
       /\ \A e1, e2 \in Cache(c) : e1[1] = e2[1] => e1 = e2
       /\ (\A t \in Threads : ~(InFlight(t) /\ tcall[t].cache = c)) =>
            Cache(c) = hist[c].last

C3_HitStep ==
  \A t \in Threads :
    HitReturns(t) => <<tcall'[t].key, tres'[t]>> \in hist[tcall'[t].cache].last

\* C3: with two threads the builds of one key are not serialized; every caller
\* that returns holds a fully built artifact for its key, a cache never holds
\* two artifacts for a key, when no build of a cache is in flight it holds for
\* every key the artifact written last, and a call that hits returns it.
C3_RacingBuilds == []C3_Built /\ [][C3_HitStep]_vars

\* C3 witness: two builds ran for one key, both finished, and a later call
\* returned the artifact written last.
C3_Witness ==
  /\ Len(arts) = 2
  /\ arts[1].key = arts[2].key
  /\ arts[1].executable /\ arts[2].executable
  /\ \E t \in Threads :
       /\ tpc[t] = "ret" /\ tcall[t].hit /\ tcall[t].key = arts[1].key
       /\ <<tcall[t].key, tres[t]>> \in hist[tcall[t].cache].last

\* -------------------------------------------------- claims on lowering

\* The program as traced, before pruning.
Traced == inp.fun.jaxpr

\* Tracing has returned a program.
HasJaxpr == Ran("trace") /\ ~(pc = "error" /\ error.at = "trace")

VarsOf(atoms) == {v \in SeqToSet(atoms) : IsVar(v)}

LeafVars(j) == SeqToSet(j.constvars) \cup SeqToSet(j.invars)

\* The variables the outputs depend on: the outputs, and the operands of
\* every equation one of whose results is depended on (equations are in
\* topological order, so one backward scan finds them).
RECURSIVE Live(_, _, _)
Live(j, i, used) ==
  IF i = 0 THEN used
  ELSE IF VarsOf(j.eqns[i].outvars) \cap used # {}
  THEN Live(j, i - 1, used \cup VarsOf(j.eqns[i].invars))
  ELSE Live(j, i - 1, used)

ReachableFromOutputs(j) == Live(j, Len(j.eqns), VarsOf(j.outvars))

\* The variables that are an output or an operand of any equation.
Referenced(j) ==
  {v \in LeafVars(j) :
     \/ \E o \in DOMAIN j.outvars : j.outvars[o] = v
     \/ \E i \in DOMAIN j.eqns : \E k \in DOMAIN j.eqns[i].invars :
          j.eqns[i].invars[k] = v}

C5_TrivialShortCircuit ==
  (HasJaxpr /\ Len(Traced.eqns) = 0) =>
    /\ calls \cap {"build", "compile", "execute"} = {}
    /\ pc \in {"lowered", "compiled", "called"} => result.is_trivial
    /\ (/\ pc = "called"
        /\ Len(Traced.outvars) = 1
        /\ Traced.outvars[1] \in SeqToSet(Traced.constvars)) =>
         /\ Len(out) = 1
         /\ out[1].data =
              inp.fun.consts[Position(Traced.constvars, Traced.outvars[1])].data

\* C5 witness: a program with no equations whose output is its constant was
\* lowered, compiled and called, and returned the constant.
C5_Witness ==
  /\ pc = "called"
  /\ Len(Traced.eqns) = 0
  /\ Traced.constvars = <<Var(1)>>
  /\ Traced.outvars = <<Var(1)>>
  /\ out = <<[data |-> <<"const", 1>>, kind |-> "DeviceArray"]>>

NonNull(devs) == {d \in SeqToSet(devs) : d # None}

ResolveRaised == pc = "error" /\ error.at = "resolve"

\* C6: with no explicit device or backend and one replica, resolution over
\* the per-argument devices succeeds exactly when they hold at most one
\* distinct non-null device, yields that device, or None when all are null,
\* and otherwise raises the colocation ValueError that names the devices.
C6_Colocation ==
  (Ran("resolve") /\ inp.device = None /\ inp.backend = None /\ nreps = 1) =>
    IF Cardinality(NonNull(arg_devices)) <= 1
    THEN /\ ~ResolveRaised
         /\ NonNull(arg_devices) = {} => device = None
         /\ NonNull(arg_devices) # {} => device \in NonNull(arg_devices)
    ELSE /\ ResolveRaised
         /\ error.kind = "ValueError"
         /\ NonNull(arg_devices) \subseteq SeqToSet(error.devices)

\* C6 witness: arguments on devices A and B were rejected with the error.
C6_Witness ==
  /\ ResolveRaised
  /\ inp.device = None /\ inp.backend = None /\ nreps = 1
  /\ NonNull(arg_devices) = {"A", "B"}
  /\ error.kind = "ValueError"

\* C7: with both a device and a backend given, lower_xla_callable raises
\* ValueError in its first statement, whatever the program and arguments:
\* nothing was traced, pruned, resolved, counted or sent to the backend.
C7_DeviceBackendConflictFirst ==
  (inp.device # None /\ inp.backend # None /\ pc # "start") =>
    /\ pc = "error"
    /\ error.kind = "ValueError"
    /\ error.at = "start"
    /\ jaxpr = NoJaxpr
    /\ kept_var_idx = {} /\ kept_const_idx = {}
    /\ nreps = 0
    /\ device = Unset
    /\ env = NoEnv
    /\ calls = {}
    /\ result = NoResult

\* C7 witness: the conflict was raised for a replicated program whose
\* arguments are on two devices.
C7_Witness ==
  /\ pc = "error" /\ error.at = "start"
  /\ inp.device # None /\ inp.backend # None
  /\ jaxpr_replicas(Traced) > 1
  /\ NonNull(inp.arg_devices) = {"A", "B"}

\* The run is past the resolution of the device, or has raised there or in
\* the first statement (a run that failed to trace has no replica count).
PastResolve ==
  /\ pc \notin {"idle", "start", "trace", "prune", "prefetch", "resolve"}
  /\ ~(pc = "error" /\ error.at = "trace")

\* C8: for a program with more than one replica an explicit device or backend
\* is a ValueError; with neither the resolved device is None whatever the
\* devices of the arguments, and resolution does not raise.
C8_MultiReplicaDevice ==
  (PastResolve /\ jaxpr_replicas(Traced) > 1) =>
    IF inp.device # None \/ inp.backend # None
    THEN pc = "error" /\ error.kind = "ValueError"
         /\ error.at \in {"start", "resolve"}
    ELSE Ran("resolve") /\ ~ResolveRaised /\ device = None

\* C8 witness: a replicated program with arguments on devices A and B was
\* resolved to no device.
C8_Witness ==
  /\ Ran("resolve") /\ ~ResolveRaised
  /\ nreps > 1
  /\ device = None
  /\ NonNull(arg_devices) = {"A", "B"}

\* C9: lowering a traced program with equations raises ValueError when its
\* replica count exceeds the device count the backend reported, and any
\* error raised before the count is read is a ValueError too; in both cases
\* no computation is built or returned.
C9_ReplicasExceedDevices ==
  (HasJaxpr /\ Len(Traced.eqns) > 0) =>
    /\ (env.device_count # 0 /\ nreps > env.device_count) =>
         /\ pc = "error" /\ error.at = "replicas"
         /\ error.kind = "ValueError"
         /\ result = NoResult /\ "build" \notin calls
    /\ (pc = "error" /\ StageNo(error.at) < StageNo("replicas")) =>
         /\ error.kind = "ValueError"
         /\ result = NoResult /\ "build" \notin calls

\* C9 witness: two replicas on a backend with one device were rejected.
C9_Witness ==
  /\ pc = "error" /\ error.at = "replicas"
  /\ nreps = 2 /\ env.device_count = 1
  /\ error.kind = "ValueError"

NotImplemented == pc = "error" /\ error.kind = "NotImplementedError"

\* C10 as stated: with more than one process, lowering that reaches the check
\* raises NotImplementedError when the program is replicated and contains a
\* pmap, and in no other case.
C10_RejectsOnlyBoth ==
  /\ (Ran("multihost") /\ env.process_count > 1 /\ nreps > 1
        /\ jaxpr_has_pmap(jaxpr)) => NotImplemented
  /\ NotImplemented => (nreps > 1 /\ jaxpr_has_pmap(jaxpr))

\* C10, amended: lowering that reaches the multi-host check raises
\* NotImplementedError exactly when more than one process participates and the
\* program is replicated or contains an xla_pmap anywhere, either one being
\* enough; NotImplementedError is raised nowhere else.
C10_RejectsEither ==
  /\ (Ran("multihost") /\ env.process_count # 0) =>
       (NotImplemented <=>
          (env.process_count > 1 /\ (nreps > 1 \/ jaxpr_has_pmap(jaxpr))))
  /\ NotImplemented => error.at = "multihost"

\* C10 witness: a program with one replica that holds an xla_pmap was
\* rejected on two processes.
C10_Witness ==
  /\ NotImplemented
  /\ env.process_count = 2
  /\ nreps = 1
  /\ jaxpr_has_pmap(jaxpr)

\* The backend calls the claim on configuration errors names.
BackendCalls ==
  {"build", "compile", "execute", "buffer_from_pyval", "copy_to_device",
   "copy_to_host_async"}

ConfigError ==
  pc = "error" /\ error.kind \in {"ValueError", "NotImplementedError"}

\* C11 as stated: when lower_xla_callable ends in a configuration error, no
\* backend call, the asynchronous prefetch of the constants included, was
\* issued before the error.
C11_NoBackendCallBeforeConfigError ==
  ConfigError => calls \cap BackendCalls = {}

HasParam(eqn, n) == n \in DOMAIN eqn.params

HoldsProgram(eqn) ==
  \E n \in DOMAIN eqn.params : eqn.params[n].type \in {"Jaxpr", "ClosedJaxpr"}

\* A program of one equation that declares axis_size n.
OneAxisEqn(j, n) ==
  /\ Len(j.eqns) = 1
  /\ HasParam(j.eqns[1], "axis_size")
  /\ j.eqns[1].params["axis_size"].val = n

\* C12 as stated: the replica count of a program with no equations is 1, and
\* of a program with one equation that declares axis_size 4 and holds no
\* nested program it is 4.
C12_AxisSizeAlone ==
  Ran("resolve") =>
    /\ Len(jaxpr.eqns) = 0 => nreps = 1
    /\ (OneAxisEqn(jaxpr, 4) /\ ~HoldsProgram(jaxpr.eqns[1])) => nreps = 4

\* C12, amended: the replica count of a program with no equations is 1; of a
\* program with one equation that declares axis_size 4 and whose call_jaxpr
\* is a program of plain equations it is 4; and of a program with one
\* equation that declares axis_size 4 and holds no call_jaxpr it is 1.
C12_AxisSizeOfCall ==
  Ran("resolve") =>
    /\ Len(jaxpr.eqns) = 0 => nreps = 1
    /\ (/\ OneAxisEqn(jaxpr, 4)
        /\ HasParam(jaxpr.eqns[1], "call_jaxpr")
        /\ jaxpr.eqns[1].params["call_jaxpr"].val = SubPlain) => nreps = 4
    /\ (OneAxisEqn(jaxpr, 4) /\ ~HasParam(jaxpr.eqns[1], "call_jaxpr"))
         => nreps = 1

\* C12 witness: one equation with axis_size 4 and no call_jaxpr was counted
\* as one replica.
C12_Witness ==
  /\ Ran("resolve")
  /\ OneAxisEqn(jaxpr, 4)
  /\ ~HasParam(jaxpr.eqns[1], "call_jaxpr")
  /\ nreps = 1

\* ------------------------------------- claims on fingerprints and keys

\* The device a value is committed to; None when it has none.
DeviceOf(x) == IF x.device = NoAttr THEN None ELSE x.device

\* The ArgumentSpec of a value: its abstract type and its device.
SpecOf(x) == <<[dtype |-> x.dtype], DeviceOf(x)>>

\* Thread t starts a call on cache c in this step.
Calls(t, c) ==
  /\ tcall'[t] # tcall[t]
  /\ tcall'[t].cache = c
  /\ tcall'[t].error = "none"

EitherUnset(s1, s2) ==
  s1[1] = s2[1] /\ (s1[2] = s2[2] \/ s1[2] = None \/ s2[2] = None)

SameDevice(s1, s2) == s1[1] = s2[1] /\ s1[2] = s2[2]

\* C18 as stated: a call selects a cache entry exactly when the entry's
\* ArgumentSpec has the same abstract type and the devices are equal or one
\* of the two is unset.
C18_EqualOrEitherUnset ==
  [][\A t \in Threads : Calls(t, "prim") =>
       (tcall'[t].hit <=>
          \E e \in primCache :
            /\ e[1][1] = tcall'[t].key[1]
            /\ EitherUnset(e[1][2][1], SpecOf(tcall'[t].arg)))]_vars

\* C18, amended: a call selects a cache entry exactly when the entry's
\* ArgumentSpec has the same abstract type and the same device, two unset
\* devices being the same; a value committed to a device does not select the
\* entry of a value with no device.
C18_EqualDevices ==
  [][\A t \in Threads : Calls(t, "prim") =>
       (tcall'[t].hit <=>
          \E e \in primCache :
            /\ e[1][1] = tcall'[t].key[1]
            /\ SameDevice(e[1][2][1], SpecOf(tcall'[t].arg)))]_vars

\* C18 witness: a call with a value on device A is building although the
\* cache holds the entry of the same primitive and dtype with no device.
C18_Witness ==
  /\ tpc[1] = "lowering"
  /\ tcall[1].cache = "prim"
  /\ tcall[1].arg.device = "A"
  /\ \E e \in primCache :
       /\ e[1][1] = tcall[1].key[1]
       /\ e[1][2][1] = <<[dtype |-> tcall[1].arg.dtype], None>>

\* What tracing a wrapped function yields.
FunJaxpr(f) ==
  IF f = "g" THEN Jaxpr(<<>>, <<Var(1)>>, <<Literal(0)>>, <<>>)
  ELSE Jaxpr(<<>>, <<Var(1)>>, <<Var(2)>>,
             <<Eqn("add", <<Var(1)>>, 2, NoParams)>>)

\* The specs of the inputs pruning retains.
RetainedSpecs(f, specs) ==
  Pick(specs, prune_unused_inputs(FunJaxpr(f)).kept_var_idx)

\* The key of a whole-program call, with the given argument specs.
JitKey(f, specs) == <<f, None, None, f, <<FALSE>>, specs>>

\* C19 as stated: a whole-program call selects a cache entry exactly when the
\* entry agrees with it on the function, the overrides, the name, the donation
\* flags and the specs of the inputs pruning retains.
C19_KeyOfRetainedInputs ==
  [][\A t \in Threads : Calls(t, "jit") =>
       LET f == tcall'[t].key[1]
       IN tcall'[t].hit <=>
            \E e \in jitCache :
              /\ JitKey(f, <<>>) = [e[1] EXCEPT ![6] = <<>>]
              /\ RetainedSpecs(f, e[1][6])
                   = RetainedSpecs(f, <<SpecOf(tcall'[t].arg)>>)]_vars

\* C19, amended: the key of a whole-program call holds the specs of all the
\* arguments, retained by pruning or not, and the call selects a cache entry
\* exactly when the entry has that key.
C19_KeyOfAllInputs ==
  [][\A t \in Threads : Calls(t, "jit") =>
       LET k == JitKey(tcall'[t].key[1], <<SpecOf(tcall'[t].arg)>>)
       IN /\ tcall'[t].key = k
          /\ tcall'[t].hit <=> \E e \in jitCache : e[1] = k]_vars

\* C19 witness: g, whose input pruning drops, is building for an i32
\* argument although the cache holds its entry for an f32 argument.
C19_Witness ==
  /\ tpc[1] = "lowering"
  /\ tcall[1].cache = "jit"
  /\ tcall[1].key[1] = "g"
  /\ RetainedSpecs("g", tcall[1].key[6]) = <<>>
  /\ tcall[1].arg.dtype = "i32"
  /\ \E e \in jitCache :
       e[1] = JitKey("g", <<<<[dtype |-> "f32"], DeviceOf(tcall[1].arg)>>>>)

\* An error was raised while the argument of t's call was fingerprinted.
RaisedInArgSpec(t) ==
  tcall[t].cache # "none"
  /\ (tcall[t].arg.dtype \notin Dtypes \/ tcall[t].arg.device = NoAttr)

\* C20 as stated: every error raised while fingerprinting, resolving,
\* pruning or looking up the cache reaches the caller; none is replaced by a
\* default such as an unset device.
C20_NoErrorSwallowed ==
  \A t \in Threads :
    /\ RaisedInArgSpec(t) => (tpc[t] = "raised" /\ tcall[t].error # "none")
    /\ tcall[t].error # "none" <=> tpc[t] = "raised"

\* C20, amended: the TypeError of a value with no abstract type and every
\* error of lowering reach the caller, and nothing is cached for them; the
\* one error that is caught is the failure to read the value's _device in
\* arg_spec, which is replaced by an unset device in the spec.
C20_OnlyDeviceLookupSwallowed ==
  \A t \in Threads : tcall[t].cache # "none" =>
    /\ tcall[t].arg.dtype \notin Dtypes =>
         /\ tpc[t] = "raised"
         /\ tcall[t].error = "TypeError"
         /\ tcall[t].key = <<>>
    /\ (tcall[t].arg.dtype \in Dtypes /\ tcall[t].arg.device = NoAttr) =>
         /\ tcall[t].error \in {"none", "LoweringError", "BackendError"}
         /\ tcall[t].key[Len(tcall[t].key)][1][2] = None
    /\ tcall[t].error # "none" <=> tpc[t] = "raised"
    /\ tpc[t] = "raised" => ~CacheHas(Cache(tcall[t].cache), tcall[t].key)

\* C20 witness: a call whose argument has no _device returned a compiled
\* function keyed with an unset device.
C20_Witness ==
  /\ tpc[1] = "ret"
  /\ tcall[1].arg.device = NoAttr
  /\ tcall[1].error = "none"
  /\ tcall[1].key[Len(tcall[1].key)][1][2] = None

\* ------------------------------------------------- claims on the calls

\* The raw outputs of the call exist: the computation was executed.
Executed == xlog.nexec > 0 \/ xlog.raw # <<>>

\* The call went through XlaCompiledComputation.call and is past its check.
CallChecked == xcall.entry = "call" /\ xpc # "check"

\* The arguments differ from what the computation was compiled for, in
\* number or in the type of an argument whose type was recorded.
ArgsMismatch ==
  \/ Len(xcall.args) # comp.nargs
  \/ \E i \in comp.kept_var_idx \cap DOMAIN xcall.args : xcall.args[i] # "f32"

\* C13 as stated: call runs the computation only when the arguments match
\* what it was compiled for in exact count and in type; otherwise it raises
\* TypeError and the executable is not invoked.
C13_ExactCountAndTypes ==
  CallChecked =>
    IF ArgsMismatch
    THEN /\ xpc = "raised" /\ xlog.error = "TypeError"
         /\ xlog.nexec = 0 /\ xlog.raw = <<>>
    ELSE xlog.error # "TypeError"

\* C14 as stated: every execution of an artifact, the ones started by
\* _xla_call_impl and apply_primitive included, comes after a check of the
\* arguments against the recorded input types in the same call.
C14_EveryExecutionChecked ==
  Executed => xlog.nchecks = 1

\* C14, amended: an execution comes after a check of the arguments exactly
\* when it was started through XlaCompiledComputation.call; then the avals
\* of the arguments at the kept positions are the recorded ones. The cached
\* entry points execute with no check of their own.
C14_OnlyCallChecks ==
  /\ Executed => (xlog.nchecks = 1 <=> xcall.entry = "call")
  /\ (Executed /\ xcall.entry = "call") =>
       Pick(xcall.args, comp.kept_var_idx) = comp.in_avals
  /\ xcall.entry \in {"xla_call_impl", "apply_primitive"} => xlog.nchecks = 0

\* C14 witness: _xla_call_impl ran the executable and no check was made.
C14_Witness ==
  /\ xcall.entry = "xla_call_impl"
  /\ xlog.nexec = 1
  /\ xpc = "done"
  /\ xlog.nchecks = 0

\* The buffer holds a value the enabled debug mode rejects.
Invalid(buf) ==
  \/ cfg.debug_nans /\ buf.health = "nan"
  \/ cfg.debug_infs /\ buf.health = "inf"

DebugMode == cfg.debug_nans \/ cfg.debug_infs

\* C15 as stated: in each of the three strategies, under a debug mode the
\* raw outputs are checked before the handlers, so no invalid output is
\* returned; with no debug mode no check is made and no FloatingPointError
\* is raised.
C15_AllStrategiesChecked ==
  /\ xpc \in {"handlers", "done"} =>
       /\ \A i \in DOMAIN xlog.raw : ~Invalid(xlog.raw[i])
       /\ DebugMode => xlog.nspecial = 1
  /\ ~DebugMode =>
       /\ xlog.nspecial = 0
       /\ "FloatingPointError" \notin {xlog.raised, xlog.error}

\* C15, amended: in the single-device and the multi-replica strategy, under
\* a debug mode the raw outputs are checked before the handlers and a NaN
\* (debug_nans) or an Inf (debug_infs) raises FloatingPointError; the
\* trivial strategy makes no check in any mode and raises no
\* FloatingPointError; with no debug mode no check is made and none raised.
C15_CompiledStrategiesChecked ==
  /\ (comp.strategy \in {"compiled", "replicated"}
        /\ xpc \in {"handlers", "done"}) =>
       /\ \A i \in DOMAIN xlog.raw : ~Invalid(xlog.raw[i])
       /\ DebugMode => xlog.nspecial = 1
  /\ (comp.strategy \in {"compiled", "replicated"}
        /\ xlog.raw # <<>> /\ xpc # "special"
        /\ \E i \in DOMAIN xlog.raw : Invalid(xlog.raw[i])) =>
       /\ xlog.raised = "FloatingPointError"
       /\ xlog.nhandlers = 0 /\ xlog.results = <<>>
  /\ comp.strategy = "trivial" =>
       /\ xlog.nspecial = 0
       /\ "FloatingPointError" \notin {xlog.raised, xlog.error}
  /\ ~DebugMode =>
       /\ xlog.nspecial = 0
       /\ "FloatingPointError" \notin {xlog.raised, xlog.error}

\* C15 witness: under debug_nans a trivial computation returned a NaN.
C15_Witness ==
  /\ comp.strategy = "trivial"
  /\ cfg.debug_nans
  /\ xpc = "done"
  /\ xlog.raw[1].health = "nan"
  /\ xlog.results # <<>>

\* C16: the uncompiled function is run again at most once, only in
\* _xla_call_impl and only after the compiled call raised
\* FloatingPointError, and then always; the executable is invoked once per
\* call and not again after the error; no other error causes a re-execution.
C16_ReexecuteOnceOnFloatingPointError ==
  /\ xlog.nreexec <= 1
  /\ xlog.nexec <= 1
  /\ xlog.nreexec = 1 =>
       /\ xcall.entry = "xla_call_impl"
       /\ xlog.raised = "FloatingPointError"
       /\ xlog.nexec = 1
  /\ (xpc = "raised" /\ xcall.entry = "xla_call_impl"
        /\ xlog.raised = "FloatingPointError") => xlog.nreexec = 1
  /\ (xpc = "raised" /\ xlog.raised # "FloatingPointError") => xlog.nreexec = 0

\* C16 witness: the compiled call of _xla_call_impl raised
\* FloatingPointError and the function was run again once.
C16_Witness ==
  /\ xpc = "raised"
  /\ xcall.entry = "xla_call_impl"
  /\ xlog.raised = "FloatingPointError"
  /\ xlog.nreexec = 1
  /\ xlog.nexec = 1

\* The handlers were made: compile() is over.
HandlersMade == xpc \notin {"idle", "lowered"}

\* Result i came out of its handler.
Handled(i) ==
  xpc = "done" /\ i \in DOMAIN xlog.results /\ ~xlog.raw[i].is_device_array

\* C17 as stated: an aval with no registered handler is a TypeError; the
\* unit and token handlers return the fixed values without a buffer; the
\* handler of every shaped array wraps the buffer into a device array on the
\* device the handler was made for.
C17_ShapedArraysWrapped ==
  /\ HandlersMade =>
       ((\E i \in DOMAIN comp.out_avals :
           comp.out_avals[i].type \notin xla_result_handlers)
        <=> (xcall.entry = "none" /\ xpc = "raised" /\ xlog.error = "TypeError"))
  /\ \A i \in DOMAIN xlog.results : Handled(i) =>
       LET a == comp.out_avals[i]
           r == xlog.results[i]
       IN /\ a.type = "AbstractUnit" => (r.kind = "unit" /\ r.buffer = NoBuf)
          /\ a.type = "AbstractToken" => (r.kind = "token" /\ r.buffer = NoBuf)
          /\ a.type \in {"ShapedArray", "ConcreteArray"} =>
               /\ r.kind = "DeviceArray"
               /\ r.device = comp.device
               /\ r.buffer = xlog.raw[i]

\* C17, amended: as stated, except that the handler of a shaped array of
\* dtype float0 returns a host array of zeros and reads no buffer.
C17_ShapedArraysButFloat0Wrapped ==
  /\ HandlersMade =>
       ((\E i \in DOMAIN comp.out_avals :
           comp.out_avals[i].type \notin xla_result_handlers)
        <=> (xcall.entry = "none" /\ xpc = "raised" /\ xlog.error = "TypeError"))
  /\ \A i \in DOMAIN xlog.results : Handled(i) =>
       LET a == comp.out_avals[i]
           r == xlog.results[i]
       IN /\ a.type = "AbstractUnit" => (r.kind = "unit" /\ r.buffer = NoBuf)
          /\ a.type = "AbstractToken" => (r.kind = "token" /\ r.buffer = NoBuf)
          /\ (a.type \in {"ShapedArray", "ConcreteArray"} /\ a.dtype # "float0") =>
               /\ r.kind = "DeviceArray"
               /\ r.device = comp.device
               /\ r.buffer = xlog.raw[i]
          /\ (a.type \in {"ShapedArray", "ConcreteArray"} /\ a.dtype = "float0") =>
               /\ r.kind = "ndarray"
               /\ r.buffer = NoBuf

\* C17 witness: the handler of a float0 output returned zeros on the host.
C17_Witness ==
  /\ Handled(1)
  /\ comp.out_avals[1].dtype = "float0"
  /\ xlog.results[1].kind = "ndarray"
  /\ xlog.results[1].buffer = NoBuf


\* ----------------------------------------- claims on donation and pruning

\* The donation flags of the retained inputs as the builder received them.
RetainedDonations == Pick(inp.donated_invars, kept_var_idx)

\* The position among the retained inputs of the input at position i.
Rank(i) == Cardinality({k \in kept_var_idx : k <= i})

\* The input at position i was donated and is aliased to no output.
DonatedNotAliased(i) ==
  /\ inp.donated_invars[i]
  /\ ~(i \in kept_var_idx /\ Rank(i) \in obs.aliased)

\* The donation warning lists the input at position i.
Reported(i) ==
  /\ "donation" \in obs.warnings
  /\ i \in kept_var_idx
  /\ Rank(i) \in obs.unused_donations

Returned == pc \in {"lowered", "compiled", "called"}

\* C21 as stated: donation never makes the build fail, and every input that
\* was marked donated and is aliased to no output, the pruned ones included,
\* is reported in a warning of the returned computation.
C21_EveryUnaliasedDonationReported ==
  /\ pc = "error" => error.at # "build"
  /\ Returned =>
       \A i \in DOMAIN inp.donated_invars : DonatedNotAliased(i) => Reported(i)

\* C21, amended: donation never makes the build fail; when the reduced
\* program has equations, the warning lists exactly the retained inputs that
\* were marked donated and are aliased to no output, and nothing is aliased
\* on a platform other than gpu and tpu; a donated input removed by pruning
\* is not reported, and a program with no equations is returned with no
\* donation warning at all.
C21_RetainedUnaliasedDonationReported ==
  /\ pc = "error" => error.at # "build"
  /\ (Returned /\ ~result.is_trivial) =>
       /\ \A i \in DOMAIN inp.donated_invars :
            Reported(i) <=> (i \in kept_var_idx /\ DonatedNotAliased(i))
       /\ ~supports_aliasing(backend) => obs.aliased = {}
       /\ \A k \in obs.aliased : RetainedDonations[k]
  /\ (Returned /\ result.is_trivial) => "donation" \notin obs.warnings

\* C21 witness: on a platform without aliasing a computation was built with
\* one donated input reported and another, pruned, donated input not reported.
C21_Witness ==
  /\ Returned /\ ~result.is_trivial
  /\ ~supports_aliasing(backend)
  /\ \E i \in DOMAIN inp.donated_invars : Reported(i)
  /\ \E i \in DOMAIN inp.donated_invars :
       inp.donated_invars[i] /\ i \notin kept_var_idx /\ ~Reported(i)


\* s holds elements of t only, each once, in the order they have in t.
IsSubsequence(s, t) ==
  /\ \A a \in DOMAIN s : \E b \in DOMAIN t : t[b] = s[a]
  /\ \A a, b \in DOMAIN s :
       a < b => Position(t, s[a]) < Position(t, s[b])

PositionsIn(t, s) == {i \in DOMAIN t : \E a \in DOMAIN s : s[a] = t[i]}

\* C22: _prune_unused_inputs leaves the equations (their nested programs
\* included) and the outputs as they were, drops exactly the inputs and the
\* constants that are no output and no operand of any equation, keeps the
\* retained ones in their original order, and returns as kept index sets
\* their original positions.
C22_PruneLeavesEquationsAndOrder ==
  Ran("prune") =>
    /\ jaxpr.eqns = Traced.eqns
    /\ jaxpr.outvars = Traced.outvars
    /\ SeqToSet(jaxpr.invars) = SeqToSet(Traced.invars) \cap Referenced(Traced)
    /\ SeqToSet(jaxpr.constvars) = SeqToSet(Traced.constvars) \cap Referenced(Traced)
    /\ IsSubsequence(jaxpr.invars, Traced.invars)
    /\ IsSubsequence(jaxpr.constvars, Traced.constvars)
    /\ kept_var_idx = PositionsIn(Traced.invars, jaxpr.invars)
    /\ kept_const_idx = PositionsIn(Traced.constvars, jaxpr.constvars)

\* C22 witness: pruning dropped the first of two inputs and kept the second,
\* and left in place an equation whose result nothing uses.
C22_Witness ==
  /\ Ran("prune")
  /\ Len(Traced.invars) = 2
  /\ kept_var_idx = {2}
  /\ jaxpr.invars = <<Traced.invars[2]>>
  /\ \E i \in DOMAIN jaxpr.eqns :
       VarsOf(jaxpr.eqns[i].outvars) \cap ReachableFromOutputs(Traced) = {}


\* ------------------------------------------- claims on compile and calls

\* The kept positions in increasing order.
KeptSeq == Pick([i \in DOMAIN inp.arg_devices |-> i], kept_var_idx)

\* What the atom stands for when the traced program's inputs are bound to
\* all the call's arguments and its constants to all the traced constants.
ValueOf(a) ==
  IF ~IsVar(a) THEN canonicalize_dtype(a[2])
  ELSE IF a \in SeqToSet(Traced.invars)
  THEN Args[Position(Traced.invars, a)].data
  ELSE inp.fun.consts[Position(Traced.constvars, a)].data

TrivialCalled == pc = "called" /\ obs.strategy = "trivial"

\* C23: a trivial execution returns one result per output, in output order:
\* the literal's value for a literal, and for a variable the argument at the
\* kept position, or the retained constant, that stands at the variable's
\* position among the reduced program's inputs, or constants; that is what
\* the traced program yields on all the arguments, and no result is an
\* argument at a pruned position.
C23_TrivialResultsByPosition ==
  TrivialCalled =>
    /\ Len(out) = Len(jaxpr.outvars)
    /\ \A o \in DOMAIN out :
         LET v == jaxpr.outvars[o]
         IN /\ ~IsVar(v) => out[o].data = canonicalize_dtype(v[2])
            /\ (IsVar(v) /\ v \in SeqToSet(jaxpr.invars)) =>
                 out[o].data = Args[KeptSeq[Position(jaxpr.invars, v)]].data
            /\ (IsVar(v) /\ v \in SeqToSet(jaxpr.constvars)) =>
                 out[o].data = consts[Position(jaxpr.constvars, v)].data
            /\ out[o].data = ValueOf(Traced.outvars[o])
            /\ \A i \in DOMAIN Args :
                 out[o].data = Args[i].data => i \in kept_var_idx

\* C23 witness: a trivial program of two inputs, the first pruned, returned
\* its second argument and a literal, in that order.
C23_Witness ==
  /\ TrivialCalled
  /\ Len(inp.arg_devices) = 2
  /\ kept_var_idx = {2}
  /\ Len(out) = 2
  /\ out[1].data = <<"arg", 2>>
  /\ out[2].data = canonicalize_dtype(0)


RECURSIVE Flatten(_)
Flatten(groups) ==
  IF groups = <<>> THEN <<>> ELSE groups[1] \o Flatten(Tail(groups))

Increasing(q) == \A a, b \in DOMAIN q : a < b => q[a] < q[b]

CompiledCalled == pc = "called" /\ obs.strategy = "compiled"

\* C24: a single-device compiled execution puts on the device exactly the
\* arguments that are at kept positions and are no token, in argument order,
\* invokes the executable once, and gives the handler of output i the next
\* group of output buffers, of the size declared for output i, so that the
\* groups in order are the output buffers, each in one group, and there are
\* as many results as outputs.
C24_TransferExecuteOncePartition ==
  CompiledCalled =>
    /\ SeqToSet(obs.transferred) = kept_var_idx \ inp.tokens
    /\ Increasing(obs.transferred)
    /\ obs.nexecute = 1
    /\ "execute" \in calls
    /\ Len(obs.groups) = Len(jaxpr.outvars)
    /\ Len(out) = Len(jaxpr.outvars)
    /\ Flatten(obs.groups) = OutBuffers(obs.buffer_counts)
    /\ ~obs.buffer_counts.is_none =>
         \A o \in DOMAIN obs.groups :
           Len(obs.groups[o]) = obs.buffer_counts.counts[o]

\* C24 witness: a call with a token at a kept position transferred the other
\* kept argument only, and its two outputs got one and two buffers.
C24_Witness ==
  /\ CompiledCalled
  /\ inp.tokens \cap kept_var_idx # {}
  /\ obs.transferred # <<>>
  /\ obs.buffer_counts.counts = <<1, 2>>
  /\ obs.groups = << <<1>>, <<2, 3>> >>


Compiled == obs.strategy # "none"

\* The strategy is the one the reduced program and the replica count call
\* for, and every call so far ran it.
StrategyFits ==
  Compiled =>
    /\ obs.strategy = "trivial" <=> Len(jaxpr.eqns) = 0
    /\ obs.strategy = "compiled" <=> (Len(jaxpr.eqns) # 0 /\ nreps = 1)
    /\ obs.strategy = "replicated" <=> (Len(jaxpr.eqns) # 0 /\ nreps > 1)
    /\ \A k \in DOMAIN obs.ran : obs.ran[k] = obs.strategy

\* C25: the execution strategy is chosen when the artifact is compiled and
\* no later compile() or call changes it; it is the trivial one exactly when
\* the reduced program has no equation, else the single-device one exactly
\* when the replica count is 1, else the multi-replica one; and every call
\* runs the chosen strategy.
C25_StrategyChosenOnce ==
  [][(Compiled => obs.strategy' = obs.strategy) /\ StrategyFits']_vars

\* C25 witness: a multi-replica computation was called twice.
C25_Witness ==
  /\ pc = "called"
  /\ nreps > 1
  /\ obs.ran = <<"replicated", "replicated">>


BuildErrors == {"LoweringError", "BackendError"}

\* The one thread's call ended in an error of the builder.
BuildFailed == tpc[1] = "raised" /\ tcall[1].error \in BuildErrors

\* What a failed build leaves behind: the error and no artifact with the
\* caller, no entry for the key, and in the caches only fully built
\* artifacts, each stored by the successful build of its key.
FailedBuildLeaves ==
  /\ BuildFailed =>
       /\ tres[1] = 0
       /\ ~CacheHas(Cache(tcall[1].cache), tcall[1].key)
  /\ \A e \in primCache \cup jitCache :
       /\ arts[e[2]].executable
       /\ arts[e[2]].key = e[1]

\* The step in which a build raises changes neither cache.
FailingStep ==
  (tpc[1] \in {"lowering", "compiling"} /\ tpc'[1] = "raised") =>
     /\ primCache' = primCache
     /\ jitCache' = jitCache

\* The call that follows a failed build with the same key runs the builder.
RetryStep ==
  (BuildFailed /\ tcall'[1].key = tcall[1].key /\ tpc'[1] # "raised") =>
     /\ tpc'[1] = "lowering"
     /\ ~tcall'[1].hit
     /\ ninvoked' = ninvoked + 1

\* C27: in one thread, a build that raises (in lowering or in the backend's
\* compile) changes no cache and stores nothing for its key, the caller gets
\* the error and no artifact, and the next call with the same key misses and
\* invokes the builder again; no cache ever holds a computation that has no
\* executable.
C27_FailedBuildNotCached ==
  []FailedBuildLeaves /\ [][FailingStep /\ RetryStep]_vars

\* C27 witness: the build of a key was lowered and failed in the backend's
\* compile, nothing was stored, and the next call with that key is building
\* again.
C27_Witness ==
  /\ tpc[1] = "lowering"
  /\ tcall[1].cache = "jit"
  /\ tcall[1].key \in hist["jit"].failed
  /\ hist["jit"].nfails >= 1
  /\ hist["jit"].nbuilds = 2
  /\ Len(arts) = 1
  /\ jitCache = {}


\* ------------------------------------------- claims on the colocation check

\* At least two distinct devices among the committed arguments.
Scattered(devs) == Cardinality({d \in SeqToSet(devs) : d # None}) >= 2

RetainedDevices == Pick(inp.arg_devices, (prune_unused_inputs(Traced)).kept_var_idx)

\* C28: a whole-program call with no device or backend override and one
\* replica raises the colocation error exactly when the devices of the
\* retained arguments are on two devices, whatever the devices of the dropped
\* ones; a call through xla_primitive_callable raises it exactly when the
\* devices of all the arguments are on two devices, before anything is
\* traced or pruned, and never in lower_xla_callable.
C28_ColocationOfRetainedInputs ==
  /\ (~inp.prim /\ Ran("resolve") /\ inp.device = None /\ inp.backend = None
        /\ nreps = 1) =>
       (ResolveRaised <=> Scattered(RetainedDevices))
  /\ (inp.prim /\ pc # "prim") =>
       /\ (pc = "error" /\ error.at = "prim") <=> Scattered(inp.arg_devices)
       /\ (pc = "error" /\ error.at = "prim") =>
            (error.kind = "ValueError" /\ jaxpr = NoJaxpr /\ kept_var_idx = {})
       /\ pc = "error" => error.at \in {"prim", "replicas", "multihost"}

\* C28 witness: a whole-program call with arguments on devices A and B was
\* lowered, compiled and called, pruning having dropped the argument on one
\* of the two.
C28_Witness ==
  /\ ~inp.prim
  /\ pc = "called"
  /\ Scattered(inp.arg_devices)
  /\ Cardinality(kept_var_idx) = 1
  /\ device \in {"A", "B"}


\* ------------------------------------------ claims on the re-execution

\* _xla_call_impl's FloatingPointError handler ran.
HandlerRan == xcall.entry = "xla_call_impl" /\ xlog.nreexec = 1

\* C29: _xla_call_impl ends either with the results of the compiled call or,
\* after its FloatingPointError, with the error the uncompiled re-execution
\* raised, never at `return out` with no out bound (UnboundLocalError); and
\* a debug mode is set whenever the handler ran.
C29_ReturnAlwaysHasResult ==
  xcall.entry = "xla_call_impl" =>
    /\ xpc = "done" =>
         /\ xlog.nreexec = 0
         /\ Len(xlog.results) = Len(comp.out_avals)
    /\ HandlerRan =>
         /\ DebugMode
         /\ xpc = "raised"
         /\ xlog.raised = "FloatingPointError"
         /\ xlog.error # "UnboundLocalError"


\* ------------------------------------------ claims on the kept indices

\* What lowering retained is what the kept indices select, in order: the
\* index set is the one pruning computed, and the argument devices, the
\* donation flags (which aliasing may clear but not move) and the reduced
\* program's inputs are the entries of the originals at the kept indices.
RetainedByKeptIndices ==
  Ran("prune") =>
    /\ kept_var_idx = (prune_unused_inputs(Traced)).kept_var_idx
    /\ arg_devices = Pick(inp.arg_devices, kept_var_idx)
    /\ jaxpr.invars = Pick(Traced.invars, kept_var_idx)
    /\ Len(donated_invars) = Cardinality(kept_var_idx)
    /\ \A k \in DOMAIN donated_invars :
         donated_invars[k] => Pick(inp.donated_invars, kept_var_idx)[k]
    /\ ~Ran("build") => donated_invars = Pick(inp.donated_invars, kept_var_idx)

\* The type check of a call, and the binding of a trivial execution, took
\* the arguments at the kept indices in increasing order.
CheckedAndBoundByKeptIndices ==
  pc = "called" =>
    /\ obs.checked = KeptSeq
    /\ obs.strategy = "trivial" => obs.bound = KeptSeq

\* C30 as stated: the retained specs, donation flags and inputs follow the
\* kept indices, and every call checks, binds and transfers exactly the
\* arguments at the kept indices, in increasing order.
C30_KeptArgumentsEverywhere ==
  /\ RetainedByKeptIndices
  /\ CheckedAndBoundByKeptIndices
  /\ (pc = "called" /\ obs.strategy # "trivial") => obs.transferred = KeptSeq

\* C30, amended: as stated, except that the arguments transferred to the
\* device are those at the kept indices that are not core.token, in
\* increasing order.
C30_KeptArgumentsButTokensTransferred ==
  /\ RetainedByKeptIndices
  /\ CheckedAndBoundByKeptIndices
  /\ (pc = "called" /\ obs.strategy # "trivial") =>
       /\ Increasing(obs.transferred)
       /\ SeqToSet(obs.transferred) =
            {i \in kept_var_idx : Args[i].kind # "token"}

\* C30 witness: a compiled call of a program that reads its second argument
\* only, a token: it was type-checked and nothing was transferred.
C30_Witness ==
  /\ pc = "called"
  /\ obs.strategy = "compiled"
  /\ Len(inp.arg_devices) = 2
  /\ kept_var_idx = {2}
  /\ inp.tokens = {2}
  /\ obs.checked = <<2>>
  /\ obs.transferred = <<>>

====
